---------------------------- MODULE Spec2Model ----------------------------
(***************************************************************************)
(* A model of the BCF/VCF codec of noodles: the string dictionaries        *)
(* (noodles-bcf header/string_maps.rs), the INFO field value decoder       *)
(* (record/codec/decoder/info/field/value.rs) and the INFO block decoder   *)
(* (record/codec/decoder/info.rs).                                         *)
(*                                                                         *)
(* Option<T> is modelled as a sequence: None is <<>>, Some(x) is <<x>>.    *)
(***************************************************************************)
EXTENDS Integers, Sequences, FiniteSets, TLC

None == <<>>
Some(x) == <<x>>
IsSome(o) == o /= <<>>
Unwrap(o) == o[1]

(***************************************************************************)
(* Bounds of the model.                                                    *)
(***************************************************************************)
\* header records read after the fileformat line
MaxRecords == 3
\* largest IDX hint a header record carries
MaxIdx == 2
\* keys per collection of a vcf::Header handed to From<&vcf::Header>
MaxKeys == 2
\* elements of a numeric value on the wire
MaxArr == 2
\* bytes of a string on the wire
MaxStr == 3
\* fields in the INFO block handed to read_info
MaxFields == 3
\* bytes of a site buffer after its fixed-width prefix
MaxTail == 3
\* sample names on a #CHROM line
MaxSamples == 2
\* values of an unstructured collection of other records
MaxValues == 2

\* FILTER / FORMAT / INFO identifiers and contig names of the modelled headers
StringIds == {"PASS", "NS", "DP"}
ContigIds == {"sq0", "sq1"}
IdxHints  == {None} \cup {Some(i) : i \in 0..MaxIdx}

VARIABLES
    string_string_map,  \* StringMaps.string_string_map: [indices, entries]
    contig_string_map,  \* StringMaps.contig_string_map: [indices, entries]
    sm_pc,              \* position in from_str / From<&vcf::Header>
    sm_err,             \* Option<ParseError> returned by from_str
    sm_records,         \* the header records the from_str loop has matched
    sm_before,          \* the StringMaps value before the last step
    sm_header           \* Option<vcf::Header> given to From<&vcf::Header>

sm_vars == <<string_string_map, contig_string_map, sm_pc, sm_err, sm_records,
             sm_before, sm_header>>

VARIABLES
    rv_wire,            \* the typed value that was encoded into rv_src
    rv_src,             \* src: the bytes handed to read_value
    rv_ty,              \* ty: the header-declared type of the field
    rv_pc,              \* "idle", "ready" (before the call) or "done"
    rv_rest,            \* src after the call
    rv_result           \* the Result read_value returned

rv_vars == <<rv_wire, rv_src, rv_ty, rv_pc, rv_rest, rv_result>>

VARIABLES
    ri_src,             \* src: the bytes handed to read_info
    ri_len,             \* len: the number of fields read_info is asked for
    ri_info,            \* the caller's Info, as (key, value) pairs in order
    ri_pc,              \* "idle", "ready" (before the call) or "done"
    ri_result,          \* the Result read_info returned
    ri_rest,            \* Option: src after a call that returned Ok
    ri_before           \* the caller's Info before the call

ri_vars == <<ri_src, ri_len, ri_info, ri_pc, ri_result, ri_rest, ri_before>>

VARIABLES
    site_buf,           \* Fields.site_buf
    bounds,             \* Fields.bounds: [ids_range, reference_bases_range]
    fd_pc,              \* "idle" or "live"
    fd_result,          \* the Result of the last index() since the last write
    fd_slice,           \* the outcome of the last ids() / reference_bases()
    fd_before           \* Fields.bounds before the last index()

fd_vars == <<site_buf, bounds, fd_pc, fd_result, fd_slice, fd_before>>

VARIABLES
    cv_contigs,         \* string_maps.contigs() given to try_into_vcf_record
    cv_chromosome_id,   \* the id self.chromosome_id() returns when it is Ok
    cv_steps,           \* the outcome of each step that reads the record
    cv_pc,              \* "idle", "ready" (before the call) or "done"
    cv_result           \* the Result try_into_vcf_record returned

cv_vars == <<cv_contigs, cv_chromosome_id, cv_steps, cv_pc, cv_result>>

VARIABLES
    parser,             \* the vcf header Parser: its fields
    p_pc,               \* "idle", "live" or "finished" (finish consumed it)
    p_line,             \* the line given to the last parse_partial call
    p_before,           \* the Parser before the last parse_partial call
    p_result,           \* the Result of the last parse_partial call
    p_finish            \* the Result finish returned

p_vars == <<parser, p_pc, p_line, p_before, p_result, p_finish>>

VARIABLES
    iv_self,            \* self: the Interval intersects is called on
    iv_other,           \* other: the Interval given to intersects
    iv_pc,              \* "idle", "built", "called" or "both"
    iv_result,          \* Option<bool>: self.intersects(other)
    iv_swapped          \* Option<bool>: other.intersects(self)

iv_vars == <<iv_self, iv_other, iv_pc, iv_result, iv_swapped>>

VARIABLES
    fs_text,            \* s: the header text, as the sequence of its lines
    fs_pc,              \* "idle", "text", "from_str" or "both"
    fs_from_str,        \* Option: the Result of s.parse::<StringMaps>()
    fs_from             \* Option: s.parse::<vcf::Header>() mapped by From

fs_vars == <<fs_text, fs_pc, fs_from_str, fs_from>>

VARIABLES
    qs_buf,             \* QualityScores.0: the raw bytes
    qs_overflow_checks, \* whether the build checks arithmetic overflow
    qs_pc,              \* "idle", "ready", "iterating", "done" or "panicked"
    qs_iter,            \* Option: the bytes the iterator has not visited
    qs_yielded,         \* the scores the iterator has yielded
    qs_len              \* Option<usize> returned by len()

qs_vars == <<qs_buf, qs_overflow_checks, qs_pc, qs_iter, qs_yielded, qs_len>>

vars == <<sm_vars, rv_vars, ri_vars, fd_vars, cv_vars, p_vars, iv_vars, fs_vars,
          qs_vars>>

\* what the steps of one component leave alone: the other components
sm_frame == <<rv_vars, ri_vars, fd_vars, cv_vars, p_vars, iv_vars, fs_vars,
    qs_vars>>
rv_frame == <<sm_vars, ri_vars, fd_vars, cv_vars, p_vars, iv_vars, fs_vars,
    qs_vars>>
ri_frame == <<sm_vars, rv_vars, fd_vars, cv_vars, p_vars, iv_vars, fs_vars,
    qs_vars>>
fd_frame == <<sm_vars, rv_vars, ri_vars, cv_vars, p_vars, iv_vars, fs_vars,
    qs_vars>>
cv_frame == <<sm_vars, rv_vars, ri_vars, fd_vars, p_vars, iv_vars, fs_vars,
    qs_vars>>
p_frame == <<sm_vars, rv_vars, ri_vars, fd_vars, cv_vars, iv_vars, fs_vars,
    qs_vars>>
iv_frame == <<sm_vars, rv_vars, ri_vars, fd_vars, cv_vars, p_vars, fs_vars,
    qs_vars>>
fs_frame == <<sm_vars, rv_vars, ri_vars, fd_vars, cv_vars, p_vars, iv_vars,
    qs_vars>>
qs_frame == <<sm_vars, rv_vars, ri_vars, fd_vars, cv_vars, p_vars, iv_vars,
    fs_vars>>

(***************************************************************************)
(* StringMap (header/string_maps/string_map.rs): indices is the            *)
(* identifier -> index lookup, entries the index -> identifier table with  *)
(* holes.  Indices are 0-based; entries[i + 1] is the slot of index i.     *)
(***************************************************************************)
StringMap_default == [indices |-> [v \in {} |-> 0], entries |-> <<>>]

get_index(m, i) ==
    IF i < Len(m.entries) THEN m.entries[i + 1] ELSE None

get_index_of(m, value) ==
    IF value \in DOMAIN m.indices THEN Some(m.indices[value]) ELSE None

\* Option<(usize, &str)>: the index bound to value and the entry of that slot
get_full(m, value) ==
    LET io == get_index_of(m, value) IN
    IF io = None THEN None
    ELSE LET e == get_index(m, Unwrap(io)) IN
         IF e = None THEN None ELSE Some(<<Unwrap(io), Unwrap(e)>>)

BindIndex(indices, value, i) ==
    [v \in (DOMAIN indices) \cup {value} |->
        IF v = value THEN i ELSE indices[v]]

SetEntry(entries, i, value) ==
    [entries EXCEPT ![i + 1] = Some(value)]

push(m, value) ==
    [indices |-> BindIndex(m.indices, value, Len(m.entries)),
     entries |-> Append(m.entries, Some(value))]

\* StringMap::insert: the existing index is kept, a new value is appended
StringMap_insert(m, value) ==
    IF value \in DOMAIN m.indices
    THEN [m EXCEPT !.entries = SetEntry(m.entries, m.indices[value], value)]
    ELSE push(m, value)

\* Vec::resize(n, None) when n is larger than the length
Resize(entries, n) ==
    [k \in 1..(IF n > Len(entries) THEN n ELSE Len(entries)) |->
        IF k <= Len(entries) THEN entries[k] ELSE None]

\* StringMap::insert_at: extend with holes up to i, then bind
insert_at(m, i, value) ==
    [indices |-> BindIndex(m.indices, value, i),
     entries |-> SetEntry(Resize(m.entries, i + 1), i, value)]

(***************************************************************************)
(* StringMaps (header/string_maps.rs).                                     *)
(***************************************************************************)
StringMapPositionMismatch(actual, expected) ==
    [error |-> "StringMapPositionMismatch", actual |-> actual,
     expected |-> expected]

ParseError(name) == [error |-> name]

\* insert with the un-hinted arm appending without looking the identifier up
insert_AlwaysPush(string_map, id, idx) ==
    IF IsSome(idx)
    THEN LET i == Unwrap(idx)
             full == get_full(string_map, id)
         IN  IF IsSome(full)
             THEN LET actual == <<i, id>>
                      expected == Unwrap(full)
                  IN  IF actual /= expected
                      THEN [string_map |-> string_map,
                            err |-> Some(StringMapPositionMismatch(actual, expected))]
                      ELSE [string_map |-> string_map, err |-> None]
             ELSE [string_map |-> insert_at(string_map, i, id), err |-> None]
    ELSE [string_map |-> push(string_map, id), err |-> None]

FirstFree(m) ==
    IF \E i \in 0..(Len(m.entries) - 1) : m.entries[i + 1] = None
    THEN CHOOSE i \in 0..(Len(m.entries) - 1) :
            /\ m.entries[i + 1] = None
            /\ \A k \in 0..(i - 1) : m.entries[k + 1] /= None
    ELSE Len(m.entries)

\* insert with the un-hinted arm binding a new identifier at the first hole
insert_FillsHole(string_map, id, idx) ==
    IF IsSome(idx)
    THEN LET i == Unwrap(idx)
             full == get_full(string_map, id)
         IN  IF IsSome(full)
             THEN LET actual == <<i, id>>
                      expected == Unwrap(full)
                  IN  IF actual /= expected
                      THEN [string_map |-> string_map,
                            err |-> Some(StringMapPositionMismatch(actual, expected))]
                      ELSE [string_map |-> string_map, err |-> None]
             ELSE [string_map |-> insert_at(string_map, i, id), err |-> None]
    ELSE IF id \in DOMAIN string_map.indices
         THEN [string_map |-> StringMap_insert(string_map, id), err |-> None]
         ELSE [string_map |-> insert_at(string_map, FirstFree(string_map), id),
               err |-> None]

\* fn insert(string_map, id, idx) -> Result<(), ParseError>
insert(string_map, id, idx) ==
    IF IsSome(idx)
    THEN LET i == Unwrap(idx)
             full == get_full(string_map, id)
         IN  IF IsSome(full)
             THEN LET actual == <<i, id>>
                      expected == Unwrap(full)
                  IN  IF actual /= expected
                      THEN [string_map |-> string_map,
                            err |-> Some(StringMapPositionMismatch(actual, expected))]
                      ELSE [string_map |-> string_map, err |-> None]
             ELSE [string_map |-> insert_at(string_map, i, id), err |-> None]
    ELSE [string_map |-> StringMap_insert(string_map, id), err |-> None]

\* Default without the implicit PASS entry
StringMaps_default_NoPass ==
    [string_string_map |-> StringMap_default,
     contig_string_map |-> StringMap_default]

\* impl Default for StringMaps
StringMaps_default ==
    [string_string_map |-> StringMap_insert(StringMap_default, "PASS"),
     contig_string_map |-> StringMap_default]

RECURSIVE InsertKeys(_, _)
\* for id in keys { string_map.insert(id) }
InsertKeys(m, keys) ==
    IF keys = <<>> THEN m
    ELSE InsertKeys(StringMap_insert(m, Head(keys)), Tail(keys))

\* From with the FILTER keys numbered before the INFO keys
StringMaps_from_FiltersFirst(header) ==
    LET d == StringMaps_default IN
    [contig_string_map |-> InsertKeys(d.contig_string_map, header.contigs),
     string_string_map |->
        InsertKeys(InsertKeys(InsertKeys(d.string_string_map, header.filters),
                              header.infos),
                   header.formats)]

\* impl From<&vcf::Header> for StringMaps
StringMaps_from(header) ==
    LET d == StringMaps_default IN
    [contig_string_map |-> InsertKeys(d.contig_string_map, header.contigs),
     string_string_map |->
        InsertKeys(InsertKeys(InsertKeys(d.string_string_map, header.infos),
                              header.filters),
                   header.formats)]

\* the keys of an IndexMap: sequences without repetition
DistinctSeqs(S, n) ==
    {q \in UNION {[1..k -> S] : k \in 0..n} :
        \A a, b \in 1..Len(q) : a /= b => q[a] /= q[b]}

Headers ==
    [contigs : DistinctSeqs(ContigIds, MaxKeys),
     infos   : DistinctSeqs(StringIds, MaxKeys),
     filters : DistinctSeqs(StringIds, MaxKeys),
     formats : DistinctSeqs(StringIds, MaxKeys)]

CurrentMaps ==
    [string_string_map |-> string_string_map,
     contig_string_map |-> contig_string_map]

\* a header record as the loop sees it: its dictionary, its ID and its IDX
Line(dict, id, idx) == [dict |-> dict, id |-> id, idx |-> idx]
OtherLine == Line("none", "", None)

SMInit ==
    /\ string_string_map = StringMaps_default.string_string_map
    /\ contig_string_map = StringMaps_default.contig_string_map
    /\ sm_pc = "default"
    /\ sm_err = None
    /\ sm_records = <<>>
    /\ sm_before = StringMaps_default
    /\ sm_header = None

\* parse_file_format on an empty input: lines.next() is None
ParseFileFormatEmpty ==
    /\ sm_pc = "default"
    /\ sm_pc' = "failed"
    /\ sm_err' = Some(ParseError("MissingFileFormat"))
    /\ sm_before' = CurrentMaps
    /\ UNCHANGED <<string_string_map, contig_string_map, sm_records, sm_header>>
    /\ UNCHANGED sm_frame

\* parse_file_format on the first line, which parses as `kind` or not at all
ParseFileFormat(kind) ==
    /\ sm_pc = "default"
    /\ sm_pc' = IF kind = "FileFormat" THEN "records" ELSE "failed"
    /\ sm_err' = CASE kind = "FileFormat" -> None
                   [] kind = "Invalid" -> Some(ParseError("InvalidRecord"))
                   [] OTHER -> Some(ParseError("InvalidRecordValue"))
    /\ sm_before' = CurrentMaps
    /\ UNCHANGED <<string_string_map, contig_string_map, sm_records, sm_header>>
    /\ UNCHANGED sm_frame

\* the loop has a next line, which does not start with #CHROM
NextLine(line) ==
    /\ sm_pc = "records"
    /\ Len(sm_records) < MaxRecords
    /\ sm_records' = Append(sm_records, line)
    /\ sm_before' = CurrentMaps
    /\ UNCHANGED sm_header
    /\ UNCHANGED sm_frame

\* insert(string_maps.strings_mut(), id, idx)?
InsertStrings(id, idx) ==
    LET r == insert(string_string_map, id, idx) IN
    /\ string_string_map' = r.string_map
    /\ sm_err' = r.err
    /\ sm_pc' = IF IsSome(r.err) THEN "failed" ELSE "records"
    /\ UNCHANGED contig_string_map

\* Record::Contig(id, contig)
ContigRecord(id, idx) ==
    LET r == insert(contig_string_map, id, idx) IN
    /\ NextLine(Line("contigs", id, idx))
    /\ contig_string_map' = r.string_map
    /\ sm_err' = r.err
    /\ sm_pc' = IF IsSome(r.err) THEN "failed" ELSE "records"
    /\ UNCHANGED string_string_map

\* Record::Filter(id, filter)
FilterRecord(id, idx) ==
    /\ NextLine(Line("strings", id, idx))
    /\ InsertStrings(id, idx)

\* Record::Format(id, format)
FormatRecord(id, idx) ==
    /\ NextLine(Line("strings", id, idx))
    /\ InsertStrings(id, idx)

\* Record::Info(id, info)
InfoRecord(id, idx) ==
    /\ NextLine(Line("strings", id, idx))
    /\ InsertStrings(id, idx)

\* any other record (fileDate, ALT, ...): the `_ => {}` arm
OtherRecord ==
    /\ NextLine(OtherLine)
    /\ UNCHANGED <<string_string_map, contig_string_map, sm_err, sm_pc>>

\* a line Record::try_from rejects
InvalidRecordLine ==
    /\ sm_pc = "records"
    /\ Len(sm_records) < MaxRecords
    /\ sm_before' = CurrentMaps
    /\ sm_err' = Some(ParseError("InvalidRecord"))
    /\ sm_pc' = "failed"
    /\ UNCHANGED <<string_string_map, contig_string_map, sm_records, sm_header>>
    /\ UNCHANGED sm_frame

\* a line starting with #CHROM (break), or the end of the input: Ok(string_maps)
EndOfHeader ==
    /\ sm_pc = "records"
    /\ sm_pc' = "done"
    /\ sm_before' = CurrentMaps
    /\ UNCHANGED <<string_string_map, contig_string_map, sm_err, sm_records,
                   sm_header>>
    /\ UNCHANGED sm_frame

\* StringMaps::from(&header)
FromHeader(header) ==
    LET r == StringMaps_from(header) IN
    /\ sm_pc = "default"
    /\ sm_pc' = "from_header"
    /\ sm_header' = Some(header)
    /\ sm_before' = CurrentMaps
    /\ string_string_map' = r.string_string_map
    /\ contig_string_map' = r.contig_string_map
    /\ UNCHANGED <<sm_err, sm_records>>
    /\ UNCHANGED sm_frame

SMNext ==
    \/ ParseFileFormatEmpty
    \/ \E kind \in {"FileFormat", "Other", "Invalid"} : ParseFileFormat(kind)
    \/ \E id \in ContigIds, idx \in IdxHints : ContigRecord(id, idx)
    \/ \E id \in StringIds, idx \in IdxHints : FilterRecord(id, idx)
    \/ \E id \in StringIds, idx \in IdxHints : FormatRecord(id, idx)
    \/ \E id \in StringIds, idx \in IdxHints : InfoRecord(id, idx)
    \/ OtherRecord
    \/ InvalidRecordLine
    \/ EndOfHeader
    \/ \E header \in Headers : FromHeader(header)


(***************************************************************************)
(* Properties of the string dictionaries.                                  *)
(***************************************************************************)
DictOf(maps, dict) ==
    IF dict = "contigs" THEN maps.contig_string_map ELSE maps.string_string_map

\* the last step of the loop inserted into a dictionary
InsertedLast ==
    /\ sm_pc \in {"records", "failed"}
    /\ sm_records /= <<>>
    /\ sm_records[Len(sm_records)].dict /= "none"
    /\ sm_err \notin {Some(ParseError("InvalidRecord"))}

LastLine == sm_records[Len(sm_records)]
DictBefore == DictOf(sm_before, LastLine.dict)
DictAfter == DictOf(CurrentMaps, LastLine.dict)

\* C2: a record carrying IDX=i whose ID is already bound to index j succeeds
\* and leaves the dictionary unchanged when i = j, and when i /= j aborts the
\* parse with StringMapPositionMismatch carrying actual (i, ID) and expected
\* (j, ID).
C2_HintedRebind ==
    (/\ InsertedLast
     /\ IsSome(LastLine.idx)
     /\ LastLine.id \in DOMAIN DictBefore.indices)
    => LET i == Unwrap(LastLine.idx)
           j == DictBefore.indices[LastLine.id]
       IN  IF i = j
           THEN sm_pc = "records" /\ sm_err = None /\ DictAfter = DictBefore
           ELSE /\ sm_pc = "failed"
                /\ sm_err = Some(StringMapPositionMismatch(
                                    <<i, LastLine.id>>, <<j, LastLine.id>>))

\* C3: after a successful parse every record that carried IDX=N is placed
\* where declared: get_index(N) is its ID and get_full(ID) is (N, ID).
C3_HintedPlacedWhereDeclared ==
    sm_pc = "done" =>
        \A k \in 1..Len(sm_records) :
            LET l == sm_records[k] IN
            (l.dict /= "none" /\ IsSome(l.idx)) =>
                /\ get_index(DictOf(CurrentMaps, l.dict), Unwrap(l.idx)) = Some(l.id)
                /\ get_full(DictOf(CurrentMaps, l.dict), l.id)
                       = Some(<<Unwrap(l.idx), l.id>>)

\* C4: in every StringMaps value produced by default(), by a successful
\* from_str or by From<&vcf::Header>, strings().get_index(0) is "PASS".
C4_PassIsFirst ==
    sm_pc \in {"default", "done", "from_header"} =>
        get_index(string_string_map, 0) = Some("PASS")

\* C5: before any header record is processed the string dictionary holds
\* exactly (0, "PASS"), in both lookup directions, and the contig dictionary
\* is empty.
C5_DefaultIsPassOnly ==
    (sm_pc \in {"default", "records"} /\ sm_records = <<>>) =>
        /\ string_string_map.entries = <<Some("PASS")>>
        /\ DOMAIN string_string_map.indices = {"PASS"}
        /\ get_index(string_string_map, 0) = Some("PASS")
        /\ get_full(string_string_map, "PASS") = Some(<<0, "PASS">>)
        /\ contig_string_map.entries = <<>>
        /\ DOMAIN contig_string_map.indices = {}

C5_Witness ==
    /\ sm_pc = "records"
    /\ sm_records = <<>>
    /\ get_index_of(string_string_map, "PASS") = Some(0)

\* the keys of a header that reach the string dictionary, PASS included
HeaderStringKeys(h) ==
    {"PASS"} \cup {h.infos[k] : k \in DOMAIN h.infos}
             \cup {h.filters[k] : k \in DOMAIN h.filters}
             \cup {h.formats[k] : k \in DOMAIN h.formats}

\* C6: inserting, without an IDX hint, an identifier that is already present
\* keeps its index and grows neither lookup table; a header whose collections
\* repeat an identifier (FORMAT DP after INFO DP, an explicit FILTER PASS)
\* gets one entry per distinct identifier.
C6_InsertIsIdempotent ==
    /\ (/\ InsertedLast
        /\ LastLine.idx = None
        /\ LastLine.id \in DOMAIN DictBefore.indices)
       => /\ sm_err = None
          /\ DictAfter.indices = DictBefore.indices
          /\ Len(DictAfter.entries) = Len(DictBefore.entries)
    /\ sm_pc = "from_header" =>
          /\ DOMAIN string_string_map.indices = HeaderStringKeys(Unwrap(sm_header))
          /\ Len(string_string_map.entries)
                 = Cardinality(HeaderStringKeys(Unwrap(sm_header)))

C6_Witness ==
    /\ InsertedLast
    /\ LastLine.idx = None
    /\ LastLine.id \in DOMAIN DictBefore.indices
    /\ LastLine.id /= "PASS"
    /\ Len(DictAfter.entries) = Len(DictBefore.entries)

Holes(m) == {i \in 0..(Len(m.entries) - 1) : m.entries[i + 1] = None}

\* C7: a new identifier without an IDX hint is bound at the length of the
\* index -> identifier table, holes included; holes are never filled by
\* un-hinted entries, stay absent and have no identifier bound to them.
C7_UnhintedAppendsPastHoles ==
    /\ (InsertedLast /\ LastLine.idx = None) =>
          /\ Holes(DictBefore) \subseteq Holes(DictAfter)
          /\ LastLine.id \notin DOMAIN DictBefore.indices =>
                /\ get_full(DictAfter, LastLine.id)
                       = Some(<<Len(DictBefore.entries), LastLine.id>>)
                /\ get_index(DictAfter, Len(DictBefore.entries)) = Some(LastLine.id)
                /\ Len(DictAfter.entries) = Len(DictBefore.entries) + 1
    /\ \A dict \in {"strings", "contigs"} :
          LET m == DictOf(CurrentMaps, dict) IN
          \A i \in Holes(m) :
              /\ get_index(m, i) = None
              /\ \A v \in DOMAIN m.indices : m.indices[v] /= i

C7_Witness ==
    /\ InsertedLast
    /\ LastLine.idx = None
    /\ LastLine.id \notin DOMAIN DictBefore.indices
    /\ Holes(DictBefore) /= {}
    /\ get_index(DictAfter, Len(DictBefore.entries)) = Some(LastLine.id)

\* PASS, then the INFO, FILTER and FORMAT keys of a header, in that order
HeaderKeyOrder(h) == <<"PASS">> \o h.infos \o h.filters \o h.formats

\* the positions of a sequence that hold the first occurrence of their value
FirstOccurrences(q) == {k \in DOMAIN q : \A j \in 1..(k - 1) : q[j] /= q[k]}

\* the number a first occurrence gets: how many first occurrences precede it
Rank(q, k) == Cardinality({j \in FirstOccurrences(q) : j < k})

\* C19: StringMaps::from(&header) numbers PASS 0, then the INFO IDs in
\* header order, then the FILTER IDs, then the FORMAT IDs, skipping IDs that
\* are already present, without holes; contigs are numbered 0, 1, 2, ... in
\* header contig order.
C19_FromHeaderNumbering ==
    sm_pc = "from_header" =>
        LET h == Unwrap(sm_header)
            order == HeaderKeyOrder(h)
        IN  /\ Holes(string_string_map) = {}
            /\ Len(string_string_map.entries) = Cardinality(FirstOccurrences(order))
            /\ \A k \in FirstOccurrences(order) :
                  /\ get_index(string_string_map, Rank(order, k)) = Some(order[k])
                  /\ get_index_of(string_string_map, order[k]) = Some(Rank(order, k))
            /\ Holes(contig_string_map) = {}
            /\ Len(contig_string_map.entries) = Len(h.contigs)
            /\ \A k \in DOMAIN h.contigs :
                  /\ get_index(contig_string_map, k - 1) = Some(h.contigs[k])
                  /\ get_index_of(contig_string_map, h.contigs[k]) = Some(k - 1)

C19_Witness ==
    /\ sm_pc = "from_header"
    /\ Unwrap(sm_header).infos = <<"DP">>
    /\ Unwrap(sm_header).filters = <<"NS", "PASS">>
    /\ Unwrap(sm_header).formats = <<"DP", "NS">>
    /\ Unwrap(sm_header).contigs = <<"sq1", "sq0">>
    /\ string_string_map.entries = <<Some("PASS"), Some("DP"), Some("NS")>>
    /\ get_index_of(contig_string_map, "sq1") = Some(0)

\* the two lookups of a dictionary agree
LookupsAgree(m) ==
    /\ \A id \in DOMAIN m.indices :
          \A i \in 0..(Len(m.entries) - 1) :
              /\ get_full(m, id) = Some(<<i, id>>) => get_index(m, i) = Some(id)
              /\ get_index(m, i) = Some(id) => get_full(m, id) = Some(<<i, id>>)
    /\ \A i \in 0..(Len(m.entries) - 1) :
          get_index(m, i) /= None
              => Unwrap(get_index(m, i)) \in DOMAIN m.indices
    /\ \A a, b \in DOMAIN m.indices : a /= b => m.indices[a] /= m.indices[b]

\* C25: after any sequence of header records processed successfully by
\* from_str the two lookups of each dictionary agree: get_full(id) = (i, id)
\* implies get_index(i) = id and conversely, and no two identifiers are
\* bound to the same index
C25_LookupsAgree ==
    sm_pc \in {"records", "done"} =>
        /\ LookupsAgree(string_string_map)
        /\ LookupsAgree(contig_string_map)

(***************************************************************************)
(* Results.                                                                *)
(***************************************************************************)
Ok(v)  == [status |-> "Ok", value |-> v, err |-> None]
Err(e) == [status |-> "Err", value |-> None, err |-> Some(e)]
\* the call does not return: todo!() aborts it
Panic  == [status |-> "Panic", value |-> None, err |-> None]

(***************************************************************************)
(* The typed value codec (record/codec/value.rs, decoder/value.rs).  A     *)
(* byte is an integer of 0..255; strings are sequences of ASCII codes.     *)
(***************************************************************************)
IntKinds == {"Int8", "Int16", "Int32"}

Width(kind) ==
    CASE kind = "Int8" -> 1
      [] kind = "Int16" -> 2
      [] kind = "Int32" -> 4
      [] kind = "Float" -> 4
      [] kind = "String" -> 1

\* a byte as an i8
signed8(b) == IF b >= 128 THEN b - 256 ELSE b

\* {i8,i16,i32}::from_le_bytes: two's complement of w little-endian bytes
from_le_bytes(bytes, w) ==
    IF w = 1 THEN signed8(bytes[1])
    ELSE IF w = 2 THEN bytes[1] + 256 * signed8(bytes[2])
    ELSE bytes[1] + 256 * bytes[2] + 65536 * bytes[3] + 16777216 * signed8(bytes[4])

\* i8::MIN, i16::MIN, i32::MIN
MinOf(kind) ==
    CASE kind = "Int8" -> -128
      [] kind = "Int16" -> -32768
      [] kind = "Int32" -> -2147483647 - 1

\* impl From<i8> for Int8, From<i16> for Int16, From<i32> for Int32: the
\* most negative value is Missing, the next EndOfVector, the next six Reserved
Int_from(kind, n) ==
    LET min == MinOf(kind) IN
    CASE n = min -> [tag |-> "Missing", n |-> n]
      [] n = min + 1 -> [tag |-> "EndOfVector", n |-> n]
      [] n > min + 1 /\ n <= min + 7 -> [tag |-> "Reserved", n |-> n]
      [] OTHER -> [tag |-> "Value", n |-> n]

\* impl From<f32> for Float, on the bits of the float: 0x7f800001 is Missing,
\* 0x7f800002 EndOfVector, 0x7f800003..=0x7f800007 Reserved
Float_from(bits) ==
    CASE bits = 2139095041 -> [tag |-> "Missing", n |-> bits]
      [] bits = 2139095042 -> [tag |-> "EndOfVector", n |-> bits]
      [] bits >= 2139095043 /\ bits <= 2139095047 -> [tag |-> "Reserved", n |-> bits]
      [] OTHER -> [tag |-> "Value", n |-> bits]

\* f32::from_le_bytes, as the bits of the float read as an i32
f32_bits(bytes) == from_le_bytes(bytes, 4)

Elem_from(kind, raw) ==
    IF kind = "Float" THEN Float_from(raw) ELSE Int_from(kind, raw)

Take(q, n) == [k \in 1..n |-> q[k]]
Drop(q, n) == [k \in 1..(Len(q) - n) |-> q[k + n]]

\* the element of kind `kind` at the head of bytes
RawElem(kind, bytes) ==
    CASE kind \in IntKinds -> from_le_bytes(bytes, Width(kind))
      [] kind = "Float" -> f32_bits(bytes)
      [] OTHER -> bytes[1]

RawElems(kind, bytes, n) ==
    [k \in 1..n |->
        RawElem(kind, Take(Drop(bytes, (k - 1) * Width(kind)), Width(kind)))]

KindOfCode(code) ==
    CASE code = 1 -> "Int8"
      [] code = 2 -> "Int16"
      [] code = 3 -> "Int32"
      [] code = 5 -> "Float"
      [] code = 7 -> "String"
      [] OTHER -> "Invalid"

TypedValue(kind, scalar) == [kind |-> kind, of |-> kind, scalar |-> scalar, values |-> <<>>]
ArrayValue(kind, values) == [kind |-> "Array", of |-> kind, scalar |-> None, values |-> values]

TypeErr(e) == [status |-> "Err", err |-> e]
TypeOk(type, rest) == [status |-> "Ok", type |-> type, rest |-> rest]
LenOk(n, rest) == [status |-> "Ok", n |-> n, rest |-> rest]
ValueOk(value, rest) == [status |-> "Ok", value |-> value, rest |-> rest]

RECURSIVE read_type(_)

\* the count that follows a type byte whose high nibble is 15: a scalar
\* integer value, not negative and not a sentinel
len_of_elem(e, rest) ==
    IF e.tag /= "Value" \/ e.n < 0 THEN TypeErr("InvalidLength")
    ELSE LenOk(e.n, rest)

len_of_type(t) ==
    IF t.status = "Err" THEN t
    ELSE IF t.type = None THEN TypeErr("InvalidLength")
    ELSE IF Unwrap(t.type).kind \notin IntKinds \/ Unwrap(t.type).len /= 1
    THEN TypeErr("InvalidLength")
    ELSE IF Len(t.rest) < Width(Unwrap(t.type).kind) THEN TypeErr("UnexpectedEof")
    ELSE len_of_elem(Int_from(Unwrap(t.type).kind,
                              RawElem(Unwrap(t.type).kind, t.rest)),
                     Drop(t.rest, Width(Unwrap(t.type).kind)))

read_len(nibble, rest) ==
    IF nibble < 15 THEN LenOk(nibble, rest) ELSE len_of_type(read_type(rest))

type_of_code(code, len) ==
    IF len.status = "Err" THEN len
    ELSE IF code = 0 THEN TypeOk(None, len.rest)
    ELSE IF KindOfCode(code) = "Invalid" THEN TypeErr("InvalidType")
    ELSE TypeOk(Some([kind |-> KindOfCode(code), len |-> len.n]), len.rest)

\* decoder::value::read_type: Result<Option<Type>>; the low nibble is the
\* kind, the high nibble the count, 15 meaning that a typed integer follows
read_type(src) ==
    IF src = <<>> THEN TypeErr("UnexpectedEof")
    ELSE type_of_code(Head(src) % 16, read_len(Head(src) \div 16, Tail(src)))

RECURSIVE until_end_of_vector(_, _)
\* the elements before the first end-of-vector sentinel: no further
\* elements follow it even if more were declared
until_end_of_vector(kind, elems) ==
    IF elems = <<>> THEN <<>>
    ELSE IF Elem_from(kind, Head(elems)).tag = "EndOfVector" THEN <<>>
    ELSE <<Head(elems)>> \o until_end_of_vector(kind, Tail(elems))

\* value_of that returns every declared element, the end-of-vector
\* sentinel and what follows it included
value_of_Untruncated(kind, n, rest) ==
    IF n = 0 THEN ValueOk(Some(TypedValue(kind, None)), rest)
    ELSE IF Len(rest) < n * Width(kind) THEN TypeErr("UnexpectedEof")
    ELSE IF kind = "String"
    THEN ValueOk(Some(TypedValue(kind, Some(Take(rest, n)))), Drop(rest, n))
    ELSE IF n = 1
    THEN ValueOk(Some(TypedValue(kind, Some(Elem_from(kind, RawElem(kind, rest))))),
                 Drop(rest, Width(kind)))
    ELSE ValueOk(Some(ArrayValue(kind, RawElems(kind, rest, n))),
                 Drop(rest, n * Width(kind)))

\* the value of n elements of kind `kind` at the head of rest: one element
\* is a scalar; of several, all n are read and the array returned is cut
\* at the first end-of-vector sentinel
value_of(kind, n, rest) ==
    IF n = 0 THEN ValueOk(Some(TypedValue(kind, None)), rest)
    ELSE IF Len(rest) < n * Width(kind) THEN TypeErr("UnexpectedEof")
    ELSE IF kind = "String"
    THEN ValueOk(Some(TypedValue(kind, Some(Take(rest, n)))), Drop(rest, n))
    ELSE IF n = 1
    THEN ValueOk(Some(TypedValue(kind, Some(Elem_from(kind, RawElem(kind, rest))))),
                 Drop(rest, Width(kind)))
    ELSE ValueOk(Some(ArrayValue(kind,
                     until_end_of_vector(kind, RawElems(kind, rest, n)))),
                 Drop(rest, n * Width(kind)))

value_of_type(t) ==
    IF t.status = "Err" THEN t
    ELSE IF t.type = None THEN ValueOk(None, t.rest)
    ELSE value_of(Unwrap(t.type).kind, Unwrap(t.type).len, t.rest)

\* decoder::value::read_value: Result<Option<Value>> and the rest of src
value_read_value(src) == value_of_type(read_type(src))

(***************************************************************************)
(* The INFO field value decoder (decoder/info/field/value.rs).             *)
(***************************************************************************)
Types == {"Integer", "Flag", "Float", "Character", "String"}

\* vcf::variant::record_buf::info::field::Value
FieldValue(t, v) == [t |-> t, v |-> v]
Flag == FieldValue("Flag", 0)

InvalidValue(e) == [error |-> "InvalidValue", actual |-> None, expected |-> e]
TypeMismatch(actual, expected) ==
    [error |-> "TypeMismatch", actual |-> actual, expected |-> expected]
MissingCharacter == [error |-> "MissingCharacter", actual |-> None, expected |-> ""]

ActualType(v) ==
    CASE v.kind \in IntKinds -> "Integer"
      [] v.kind = "Float" -> "Float"
      [] v.kind = "String" -> "String"
      [] v.kind = "Array" /\ v.of \in IntKinds -> "Integer"
      [] v.kind = "Array" /\ v.of = "Float" -> "Float"

\* type_mismatch_error that does not name the wire kind
type_mismatch_error_NoActual(value, expected) == TypeMismatch(None, expected)

\* fn type_mismatch_error(value: Option<Value>, expected: Type)
type_mismatch_error(value, expected) ==
    TypeMismatch(IF value = None THEN None ELSE Some(ActualType(Unwrap(value))),
                 expected)

\* values.iter().map(|result| result.map(T::from).map(|value| match value {
\*     Value(n) => Some(n), Missing => None, _ => todo!() })).collect()
ArrayElements(kind, values) ==
    IF \E k \in 1..Len(values) :
           Elem_from(kind, values[k]).tag \notin {"Value", "Missing"}
    THEN Panic
    ELSE Ok([k \in 1..Len(values) |->
                IF Elem_from(kind, values[k]).tag = "Missing"
                THEN None ELSE Some(values[k])])

\* what a reader returns: its result and the rest of src
Read(result, rest) == [result |-> result, rest |-> rest]

\* value::read_value(src).map_err(DecodeError::InvalidValue)?
InvalidValueOf(r) == Read(Err(InvalidValue(r.err)), <<>>)

integer_array(a) ==
    IF a.status = "Panic" THEN Panic
    ELSE Ok(Some(FieldValue("IntegerArray", a.value)))

\* the match of read_integer_value on Some(x)
integer_of(x, v) ==
    CASE x.kind \in IntKinds /\ x.scalar = None -> Ok(None)
      [] x.kind \in IntKinds /\ Unwrap(x.scalar).tag = "Missing" -> Ok(None)
      [] x.kind \in IntKinds /\ Unwrap(x.scalar).tag = "Value" ->
            Ok(Some(FieldValue("Integer", Unwrap(x.scalar).n)))
      [] x.kind = "Array" /\ x.of \in IntKinds ->
            integer_array(ArrayElements(x.of, x.values))
      [] OTHER -> Err(type_mismatch_error(v, "Integer"))

integer_value(r) ==
    IF r.status = "Err" THEN InvalidValueOf(r)
    ELSE IF r.value = None THEN Read(Ok(None), r.rest)
    ELSE Read(integer_of(Unwrap(r.value), r.value), r.rest)

read_integer_value(src) == integer_value(value_read_value(src))

\* read_flag_value taking every int8 scalar for the flag
flag_of_AnyInt8(x, v) ==
    CASE /\ x.kind = "Int8"
         /\ x.scalar /= None
         /\ Unwrap(x.scalar).tag = "Value" -> Ok(Some(Flag))
      [] OTHER -> Err(type_mismatch_error(v, "Flag"))

\* the match of read_flag_value on Some(x)
flag_of(x, v) ==
    CASE /\ x.kind = "Int8"
         /\ x.scalar /= None
         /\ Unwrap(x.scalar).tag = "Value"
         /\ Unwrap(x.scalar).n = 1 -> Ok(Some(Flag))
      [] OTHER -> Err(type_mismatch_error(v, "Flag"))

flag_value(r) ==
    IF r.status = "Err" THEN InvalidValueOf(r)
    ELSE IF r.value = None THEN Read(Ok(Some(Flag)), r.rest)
    ELSE Read(flag_of(Unwrap(r.value), r.value), r.rest)

read_flag_value(src) == flag_value(value_read_value(src))

float_array(a) ==
    IF a.status = "Panic" THEN Panic
    ELSE Ok(Some(FieldValue("FloatArray", a.value)))

\* the match of read_float_value on Some(x)
float_of(x, v) ==
    CASE x.kind = "Float" /\ x.scalar = None -> Ok(None)
      [] x.kind = "Float" /\ Unwrap(x.scalar).tag = "Missing" -> Ok(None)
      [] x.kind = "Float" /\ Unwrap(x.scalar).tag = "Value" ->
            Ok(Some(FieldValue("Float", Unwrap(x.scalar).n)))
      [] x.kind = "Array" /\ x.of = "Float" ->
            float_array(ArrayElements("Float", x.values))
      [] OTHER -> Err(type_mismatch_error(v, "Float"))

float_value(r) ==
    IF r.status = "Err" THEN InvalidValueOf(r)
    ELSE IF r.value = None THEN Read(Ok(None), r.rest)
    ELSE Read(float_of(Unwrap(r.value), r.value), r.rest)

read_float_value(src) == float_value(value_read_value(src))

\* the ASCII codes of the delimiter ',' and of the missing value '.'
IsDelimiter(c) == c = 44
IsMissingValue(c) == c = 46

FirstDelimiter(str) ==
    CHOOSE k \in 1..Len(str) :
        /\ IsDelimiter(str[k])
        /\ \A h \in 1..(k - 1) : ~IsDelimiter(str[h])

RECURSIVE Split(_)
SplitAt(str, d) == <<Take(str, d - 1)>> \o Split(Drop(str, d))

\* str::split(DELIMITER): the segments between the delimiters, empty ones kept
Split(str) ==
    IF \A k \in 1..Len(str) : ~IsDelimiter(str[k]) THEN <<str>>
    ELSE SplitAt(str, FirstDelimiter(str))

RECURSIVE FlatMapChars(_)
\* .flat_map(|t| t.chars()): the characters of the segments, in order
FlatMapChars(segments) ==
    IF segments = <<>> THEN <<>>
    ELSE Head(segments) \o FlatMapChars(Tail(segments))

\* .map(|c| match c { MISSING_VALUE => None, _ => Some(c) }).collect()
MapChars(chars) ==
    [k \in 1..Len(chars) |->
        IF IsMissingValue(chars[k]) THEN None ELSE Some(chars[k])]

\* the match of read_character_value on Some(Value::String(Some(str)))
character_of_str(str) ==
    IF Len(str) <= 1
    THEN IF str = <<>> THEN Err(MissingCharacter)
         ELSE Ok(Some(FieldValue("Character", str[1])))
    ELSE Ok(Some(FieldValue("CharacterArray", MapChars(FlatMapChars(Split(str))))))

character_of(x, v) ==
    CASE x.kind = "String" /\ x.scalar = None -> Ok(None)
      [] x.kind = "String" -> character_of_str(Unwrap(x.scalar))
      [] OTHER -> Err(type_mismatch_error(v, "Character"))

character_value(r) ==
    IF r.status = "Err" THEN InvalidValueOf(r)
    ELSE IF r.value = None THEN Read(Ok(None), r.rest)
    ELSE Read(character_of(Unwrap(r.value), r.value), r.rest)

read_character_value(src) == character_value(value_read_value(src))

string_of(x, v) ==
    CASE x.kind = "String" /\ x.scalar = None -> Ok(None)
      [] x.kind = "String" -> Ok(Some(FieldValue("String", Unwrap(x.scalar))))
      [] OTHER -> Err(type_mismatch_error(v, "String"))

string_value(r) ==
    IF r.status = "Err" THEN InvalidValueOf(r)
    ELSE IF r.value = None THEN Read(Ok(None), r.rest)
    ELSE Read(string_of(Unwrap(r.value), r.value), r.rest)

read_string_value(src) == string_value(value_read_value(src))

\* pub(super) fn read_value(src, ty)
read_value(src, ty) ==
    CASE ty = "Integer" -> read_integer_value(src)
      [] ty = "Flag" -> read_flag_value(src)
      [] ty = "Float" -> read_float_value(src)
      [] ty = "Character" -> read_character_value(src)
      [] ty = "String" -> read_string_value(src)

(***************************************************************************)
(* The wire values the decoder is run on, and their encoding.              *)
(***************************************************************************)
\* signed values of each kind: plain values, then Missing, EndOfVector and
\* a Reserved value; floats as bits (0.0, 1.0 and the three sentinels)
WireElems(kind) ==
    CASE kind = "Int8" -> {1, 8, -1, -128, -127, -126}
      [] kind = "Int16" -> {1, 13, -1, -32768, -32767}
      [] kind = "Int32" -> {1, 21, -2147483647 - 1, -2147483647, -2147483646}
      [] kind = "Float" -> {0, 1065353216, 2139095041, 2139095042, 2139095043}
      [] kind = "String" -> {110, 100, 44, 46}

MaxCount(kind) == IF kind = "String" THEN MaxStr ELSE MaxArr

SeqsUpTo(S, n) == UNION {[1..k -> S] : k \in 0..n}

\* form: the count is in the high nibble of the type byte ("inline") or in
\* an int8 that follows it ("overflow"); cut: bytes missing at the end
WireValues ==
    {[kind |-> "Absent", elems |-> <<>>, form |-> "inline", cut |-> 0]}
    \cup UNION {
        [kind : {kind}, elems : SeqsUpTo(WireElems(kind), MaxCount(kind)),
         form : {"inline", "overflow"}, cut : {0, 1}]
        : kind \in {"Int8", "Int16", "Int32", "Float", "String"}}

CodeOfKind(kind) ==
    CASE kind = "Absent" -> 0
      [] kind = "Int8" -> 1
      [] kind = "Int16" -> 2
      [] kind = "Int32" -> 3
      [] kind = "Float" -> 5
      [] kind = "String" -> 7

\* to_le_bytes of the two's complement of n in w bytes
to_le_bytes(n, w) ==
    [k \in 1..w |->
        CASE k = 1 -> n % 256
          [] k = 2 -> (n \div 256) % 256
          [] k = 3 -> (n \div 65536) % 256
          [] k = 4 -> (n \div 16777216) % 256]

RECURSIVE Payload(_, _)
Payload(kind, elems) ==
    IF elems = <<>> THEN <<>>
    ELSE to_le_bytes(Head(elems), Width(kind)) \o Payload(kind, Tail(elems))

Encode(w) ==
    LET bytes ==
            IF w.kind = "Absent" THEN <<0>>
            ELSE IF w.form = "inline"
            THEN <<16 * Len(w.elems) + CodeOfKind(w.kind)>> \o Payload(w.kind, w.elems)
            ELSE <<16 * 15 + CodeOfKind(w.kind), 16 + 1, Len(w.elems)>>
                     \o Payload(w.kind, w.elems)
    IN  Take(bytes, Len(bytes) - w.cut)

RVIdle ==
    /\ rv_wire = None
    /\ rv_src = <<>>
    /\ rv_ty = ""
    /\ rv_pc = "idle"
    /\ rv_rest = <<>>
    /\ rv_result = None

\* a field value on the wire and the type the header declares for its key
RVInit ==
    /\ rv_wire \in {Some(w) : w \in WireValues}
    /\ rv_src = Encode(Unwrap(rv_wire))
    /\ rv_ty \in Types
    /\ rv_pc = "ready"
    /\ rv_rest = rv_src
    /\ rv_result = None

\* read_value(&mut src, ty)
ReadValueReturns(r) ==
    /\ rv_result' = Some(r.result)
    /\ rv_rest' = r.rest

ReadValue ==
    /\ rv_pc = "ready"
    /\ rv_pc' = "done"
    /\ ReadValueReturns(read_value(rv_src, rv_ty))
    /\ UNCHANGED <<rv_wire, rv_src, rv_ty>>
    /\ UNCHANGED rv_frame

SMIdle ==
    /\ string_string_map = StringMaps_default.string_string_map
    /\ contig_string_map = StringMaps_default.contig_string_map
    /\ sm_pc = "idle"
    /\ sm_err = None
    /\ sm_records = <<>>
    /\ sm_before = StringMaps_default
    /\ sm_header = None


(***************************************************************************)
(* Properties of the field value decoder.                                  *)
(***************************************************************************)
Wire == Unwrap(rv_wire)
Returned == Unwrap(rv_result)

\* read_value was called with type ty on a well-formed wire value
ReadAs(ty) == rv_pc = "done" /\ rv_ty = ty /\ Wire.cut = 0

\* what C8 states for the integer array elems of the given kind: one
\* entry per declared element
IntegerArrayOf(kind, elems) ==
    [k \in 1..Len(elems) |->
        IF elems[k] = MinOf(kind) THEN None ELSE Some(elems[k])]

\* C8: an Integer field decodes to None for the absent value, a zero-count
\* integer and a scalar missing sentinel; to Integer(n) for any other
\* scalar; and an integer array to an array of the same length, missing
\* sentinels mapped to None and every other element to Some(n)
C8_IntegerDecoding ==
    (ReadAs("Integer") /\ Wire.kind \in IntKinds \cup {"Absent"})
    => Returned =
         (IF Wire.kind = "Absent" \/ Wire.elems = <<>> THEN Ok(None)
          ELSE IF Len(Wire.elems) = 1
          THEN IF Wire.elems[1] = MinOf(Wire.kind) THEN Ok(None)
               ELSE Ok(Some(FieldValue("Integer", Wire.elems[1])))
          ELSE Ok(Some(FieldValue("IntegerArray",
                                  IntegerArrayOf(Wire.kind, Wire.elems)))))

IsFlagWire ==
    \/ Wire.kind = "Absent"
    \/ Wire.kind = "Int8" /\ Wire.elems = <<1>>

\* C9: a Flag field decodes to Some(Flag) exactly when the wire value is
\* absent or the int8 scalar 1; every other wire value fails with
\* TypeMismatch (expected Flag); the result is never None
C9_FlagOnlyAbsentOrOne ==
    /\ (rv_pc = "done" /\ rv_ty = "Flag") => Returned /= Ok(None)
    /\ ReadAs("Flag") =>
         IF IsFlagWire THEN Returned = Ok(Some(Flag))
         ELSE /\ Returned.status = "Err"
              /\ Unwrap(Returned.err).error = "TypeMismatch"
              /\ Unwrap(Returned.err).expected = "Flag"

C9_Witness ==
    /\ ReadAs("Flag")
    /\ Wire.kind = "Int8"
    /\ Wire.elems = <<1>>
    /\ Returned = Ok(Some(Flag))

\* the comma-separated segments of a string, by their number and content
Commas(str) == {k \in 1..Len(str) : IsDelimiter(str[k])}
SegmentCount(str) == Cardinality(Commas(str)) + 1

\* C10: a Character field whose string is longer than one byte decodes to
\* an array with one element per comma-separated segment, "." giving None
\* and any other segment its character; a one-byte string decodes to that
\* character; an absent or zero-length string decodes to None
C10_CharacterPerSegment ==
    (ReadAs("Character") /\ Wire.kind \in {"String", "Absent"})
    => IF Wire.kind = "Absent" \/ Wire.elems = <<>> THEN Returned = Ok(None)
       ELSE IF Len(Wire.elems) = 1
       THEN Returned = Ok(Some(FieldValue("Character", Wire.elems[1])))
       ELSE /\ Returned.status = "Ok"
            /\ Returned.value /= None
            /\ Unwrap(Returned.value).t = "CharacterArray"
            /\ Len(Unwrap(Returned.value).v) = SegmentCount(Wire.elems)

\* the type a wire kind stands for
WireType(kind) == IF kind \in IntKinds THEN "Integer" ELSE kind

\* the pairs of a wire type and a declared type that are incompatible
Incompatible ==
    {<<"Integer", "String">>, <<"Integer", "Character">>,
     <<"Float", "String">>, <<"Float", "Character">>,
     <<"String", "Integer">>, <<"String", "Float">>,
     <<"Float", "Integer">>, <<"Integer", "Float">>}

\* C11: a present wire value whose kind is incompatible with the declared
\* type fails with TypeMismatch, actual the wire kind and expected the
\* declared type, scalar or array; no coerced value is returned
C11_IncompatibleKindIsTypeMismatch ==
    (/\ rv_pc = "done"
     /\ Wire.cut = 0
     /\ Wire.kind /= "Absent"
     /\ <<WireType(Wire.kind), rv_ty>> \in Incompatible)
    => Returned = Err(TypeMismatch(Some(WireType(Wire.kind)), rv_ty))

C11_Witness ==
    /\ rv_pc = "done"
    /\ Wire.cut = 0
    /\ Wire.kind = "Float"
    /\ Len(Wire.elems) = 2
    /\ rv_ty = "Integer"
    /\ Returned = Err(TypeMismatch(Some("Float"), "Integer"))

\* the sentinels of a numeric kind, by their bit patterns
IsMissing(kind, n) ==
    IF kind = "Float" THEN n = 2139095041 ELSE n = MinOf(kind)
IsEndOfVector(kind, n) ==
    IF kind = "Float" THEN n = 2139095042 ELSE n = MinOf(kind) + 1

\* the position of the first end-of-vector sentinel of elems
FirstEndOfVector(kind, elems) ==
    CHOOSE k \in 1..Len(elems) :
        /\ IsEndOfVector(kind, elems[k])
        /\ \A h \in 1..(k - 1) : ~IsEndOfVector(kind, elems[h])

\* the elements before position k, missing sentinels as None
Truncated(kind, elems, k) ==
    [h \in 1..(k - 1) |->
        IF IsMissing(kind, elems[h]) THEN None ELSE Some(elems[h])]

\* an array on the wire with an end-of-vector sentinel among its declared
\* elements, and only values and missing sentinels before it
HasEndOfVector ==
    /\ Wire.kind \in IntKinds \cup {"Float"}
    /\ Len(Wire.elems) >= 2
    /\ \E k \in 1..Len(Wire.elems) : IsEndOfVector(Wire.kind, Wire.elems[k])
    /\ \A h \in 1..(FirstEndOfVector(Wire.kind, Wire.elems) - 1) :
           Elem_from(Wire.kind, Wire.elems[h]).tag \in {"Value", "Missing"}

C29_MismatchKindsDiffer ==
    (/\ rv_pc = "done"
     /\ Returned.status = "Err"
     /\ Unwrap(Returned.err).error = "TypeMismatch")
    => Unwrap(Returned.err).actual /= Some(Unwrap(Returned.err).expected)

(***************************************************************************)
(* The INFO block decoder (decoder/info.rs) over Info                      *)
(* (noodles-vcf record/info.rs): an IndexMap, here the sequence of its     *)
(* (key, value) pairs in insertion order.                                  *)
(***************************************************************************)
InfoKeys(info) == {info[k][1] : k \in 1..Len(info)}
InfoPosition(info, key) == CHOOSE k \in 1..Len(info) : info[k][1] = key

\* Info::clear
Info_clear(info) == <<>>

\* Info::insert (IndexMap::insert): an existing key keeps its position and
\* takes the new value, the old value is returned; a new key is appended
Info_insert(info, key, value) ==
    IF key \in InfoKeys(info)
    THEN [info |-> [info EXCEPT ![InfoPosition(info, key)] = <<key, value>>],
          old  |-> Some(info[InfoPosition(info, key)][2])]
    ELSE [info |-> Append(info, <<key, value>>), old |-> None]

\* the header of the file being read: its INFO records and its dictionary
InfoHeader == [contigs |-> <<>>, infos |-> <<"NS", "DP">>,
               filters |-> <<"PASS">>, formats |-> <<>>]
InfoHeaderStrings == StringMaps_from(InfoHeader).string_string_map
InfoType(key) == IF key = "DP" THEN "Flag" ELSE "Integer"

InvalidField(e) == [error |-> "InvalidField", of |-> e]
DuplicateKey(key) == [error |-> "DuplicateKey", of |-> <<key>>]

FieldErr(e) == [status |-> "Err", err |-> e]
FieldOk(key, value, rest) ==
    [status |-> "Ok", key |-> key, value |-> value, rest |-> rest]

\* the value of the field whose key was read
field_value(key, r) ==
    IF r.result.status = "Ok" THEN FieldOk(key, r.result.value, r.rest)
    ELSE IF r.result.status = "Err" THEN FieldErr("InvalidValue")
    ELSE [status |-> "Panic"]

field_of_entry(entry, rest) ==
    IF entry = None THEN FieldErr("InvalidKey")
    ELSE IF Unwrap(entry) \notin {InfoHeader.infos[k] : k \in 1..Len(InfoHeader.infos)}
    THEN FieldErr("MissingInfoMapEntry")
    ELSE field_value(Unwrap(entry), read_value(rest, InfoType(Unwrap(entry))))

\* the key of a field: a typed integer scalar, the index of the key in the
\* dictionary of strings
field_of_key(r) ==
    IF r.status = "Err" THEN FieldErr("InvalidKey")
    ELSE IF r.value = None THEN FieldErr("InvalidKey")
    ELSE IF Unwrap(r.value).kind \notin IntKinds THEN FieldErr("InvalidKey")
    ELSE IF Unwrap(r.value).scalar = None THEN FieldErr("InvalidKey")
    ELSE IF Unwrap(Unwrap(r.value).scalar).tag /= "Value" THEN FieldErr("InvalidKey")
    ELSE IF Unwrap(Unwrap(r.value).scalar).n < 0 THEN FieldErr("InvalidKey")
    ELSE field_of_entry(get_index(InfoHeaderStrings, Unwrap(Unwrap(r.value).scalar).n),
                        r.rest)

\* decoder::info::field::read_field: Result<(String, Option<Value>)>
read_field(src) == field_of_key(value_read_value(src))

\* src after the call is followed on the Ok path only
InfoRead(result, info, rest) == [result |-> result, info |-> info, rest |-> rest]

RECURSIVE read_info_loop(_, _, _)

\* if info.insert(key.clone(), value).is_some() { return Err(DuplicateKey) }
read_info_insert(inserted, f, n) ==
    IF IsSome(inserted.old)
    THEN InfoRead(Err(DuplicateKey(f.key)), inserted.info, None)
    ELSE read_info_loop(f.rest, n - 1, inserted.info)

\* read_field(src, header).map_err(DecodeError::InvalidField)?
read_info_field(f, n, info) ==
    IF f.status = "Panic" THEN InfoRead(Panic, info, None)
    ELSE IF f.status = "Err" THEN InfoRead(Err(InvalidField(f.err)), info, None)
    ELSE read_info_insert(Info_insert(info, f.key, f.value), f, n)

\* for _ in 0..len { ... } Ok(())
read_info_loop(src, n, info) ==
    IF n = 0 THEN InfoRead(Ok(<<>>), info, Some(src))
    ELSE read_info_field(read_field(src), n, info)

\* read_info without info.clear()
read_info_NoClear(src, len, info) == read_info_loop(src, len, info)

\* pub fn read_info(src, header, len, info): the Result and the caller's info
read_info(src, len, info) == read_info_loop(src, len, Info_clear(info))

\* the bytes of a field: its key as an Int8 scalar, then its value
FieldValues == {<<0>>, <<16 + 1, 1>>, <<16 + 1, 5>>}
FieldBytes == {<<16 + 1, k>> \o v : k \in 1..3, v \in FieldValues}

RECURSIVE Concat(_)
Concat(seqs) == IF seqs = <<>> THEN <<>> ELSE Head(seqs) \o Concat(Tail(seqs))

InfoBlocks == {Concat(fs) : fs \in SeqsUpTo(FieldBytes, MaxFields)}

\* the Info the caller hands in holds the fields of the record read before
InfosBefore == {<<>>, <<<<"DP", Some(Flag)>>>>}

RIIdle ==
    /\ ri_src = <<>>
    /\ ri_len = 0
    /\ ri_info = <<>>
    /\ ri_pc = "idle"
    /\ ri_result = None
    /\ ri_rest = None
    /\ ri_before = <<>>

RIInit ==
    /\ ri_src \in InfoBlocks
    /\ ri_len \in 0..MaxFields
    /\ ri_info \in InfosBefore
    /\ ri_pc = "ready"
    /\ ri_result = None
    /\ ri_rest = None
    /\ ri_before = ri_info

ReadInfoReturns(r) ==
    /\ ri_result' = Some(r.result)
    /\ ri_info' = r.info
    /\ ri_rest' = r.rest

\* read_info(&mut src, &header, len, &mut info)
ReadInfo ==
    /\ ri_pc = "ready"
    /\ ri_pc' = "done"
    /\ ReadInfoReturns(read_info(ri_src, ri_len, ri_info))
    /\ UNCHANGED <<ri_src, ri_len, ri_before>>
    /\ UNCHANGED ri_frame

\* C1: when read_info returns DuplicateKey, the caller's Info holds no key:
\* the fields decoded before the duplicate are not observable in it
C1_DuplicateKeyDiscardsInfo ==
    (/\ ri_pc = "done"
     /\ Unwrap(ri_result).status = "Err"
     /\ Unwrap(Unwrap(ri_result).err).error = "DuplicateKey")
    => ri_info = <<>>

\* the byte length of the field at the head of src: a key of two bytes and
\* a value of one byte (absent) or two (an int8 scalar)
WireFieldLength(src) == IF src[3] = 0 THEN 3 ELSE 4

RECURSIVE WireKeys(_, _)
\* the keys of the first n fields of src, in wire order: the strings the
\* header numbers 1 (NS) and 2 (DP)
WireKeys(src, n) ==
    IF n = 0 \/ Len(src) < 3 THEN <<>>
    ELSE <<IF src[2] = 1 THEN "NS" ELSE IF src[2] = 2 THEN "DP" ELSE "?">>
         \o WireKeys(Drop(src, WireFieldLength(src)), n - 1)

RECURSIVE WireLength(_, _)
\* the byte length of the first n fields of src
WireLength(src, n) ==
    IF n = 0 \/ Len(src) < 3 THEN 0
    ELSE WireFieldLength(src) + WireLength(Drop(src, WireFieldLength(src)), n - 1)

ReadInfoSucceeded == ri_pc = "done" /\ Unwrap(ri_result).status = "Ok"

\* C22: on success read_info has decoded exactly len fields and the Info
\* holds exactly those len keys in wire order, whatever it held before the
\* call; with len = 0 it consumes no bytes and leaves the Info empty
C22_ReadInfoHoldsLenKeys ==
    ReadInfoSucceeded =>
        /\ Len(ri_info) = ri_len
        /\ [k \in 1..Len(ri_info) |-> ri_info[k][1]] = WireKeys(ri_src, ri_len)
        /\ ri_rest = Some(Drop(ri_src, WireLength(ri_src, ri_len)))
        /\ ri_len = 0 => (ri_info = <<>> /\ ri_rest = Some(ri_src))

C22_Witness ==
    /\ ReadInfoSucceeded
    /\ ri_before /= <<>>
    /\ ri_len = 2
    /\ ri_info[1][1] = "DP"
    /\ ri_info[2][1] = "NS"
    /\ Unwrap(ri_rest) /= <<>>

(***************************************************************************)
(* The lazy record fields (record/fields.rs): the site buffer and the      *)
(* bounds of its identifiers and reference bases.  A range start..end is   *)
(* the pair <<start, end>>.                                                *)
(***************************************************************************)
\* bounds::FORMAT_KEY_COUNT_INDEX: the last byte of the fixed-width prefix
FORMAT_KEY_COUNT_INDEX == 23
IDS_START_INDEX == FORMAT_KEY_COUNT_INDEX + 1

Bounds(ids_range, reference_bases_range) ==
    [ids_range |-> ids_range, reference_bases_range |-> reference_bases_range]

\* io::ErrorKind of the error record::value::read_type returns
ErrorKindOf(e) == IF e = "UnexpectedEof" THEN "UnexpectedEof" ELSE "InvalidData"

Consumed(start, end, buf) ==
    [status |-> "Ok", start |-> start, end |-> end, buf |-> buf]
NotConsumed(result) == [status |-> result.status, result |-> result]

\* let end = start + len; *buf = &buf[len..]; Ok((start, end))
consume_string_advance(start, len, buf) ==
    IF len > Len(buf) THEN NotConsumed(Panic)
    ELSE Consumed(start, start + len, Drop(buf, len))

\* consume_string with start relative to the scan position of the string
consume_string_type_Relative(t, prev_buf_len, offset) ==
    IF t.status = "Err" THEN NotConsumed(Err(ErrorKindOf(t.err)))
    ELSE IF t.type = None THEN NotConsumed(Err("InvalidData"))
    ELSE IF Unwrap(t.type).kind /= "String" THEN NotConsumed(Err("InvalidData"))
    ELSE consume_string_advance(prev_buf_len - Len(t.rest),
                                Unwrap(t.type).len, t.rest)

\* let Some(Type::String(len)) = read_type(buf)? else { InvalidData }
consume_string_type(t, prev_buf_len, offset) ==
    IF t.status = "Err" THEN NotConsumed(Err(ErrorKindOf(t.err)))
    ELSE IF t.type = None THEN NotConsumed(Err("InvalidData"))
    ELSE IF Unwrap(t.type).kind /= "String" THEN NotConsumed(Err("InvalidData"))
    ELSE consume_string_advance(offset + (prev_buf_len - Len(t.rest)),
                                Unwrap(t.type).len, t.rest)

\* fn consume_string(buf: &mut &[u8], offset: usize): [start, end)
consume_string(buf, offset) == consume_string_type(read_type(buf), Len(buf), offset)

Indexed(result, b) == [result |-> result, bounds |-> b]

\* let (start, end) = consume_string(&mut buf, i)?;
\* bounds.reference_bases_range = start..end; Ok(())
index_reference_bases(c, b) ==
    IF c.status /= "Ok" THEN Indexed(c.result, b)
    ELSE Indexed(Ok(<<>>), [b EXCEPT !.reference_bases_range = <<c.start, c.end>>])

\* let (start, end) = consume_string(&mut buf, i)?;
\* bounds.ids_range = start..end; i = end;
index_ids(c, b) ==
    IF c.status /= "Ok" THEN Indexed(c.result, b)
    ELSE index_reference_bases(consume_string(c.buf, c.end),
                               [b EXCEPT !.ids_range = <<c.start, c.end>>])

\* fn index(buf: &[u8], bounds: &mut Bounds) -> io::Result<()>
index(buf, b) ==
    IF Len(buf) < IDS_START_INDEX THEN Indexed(Err("UnexpectedEof"), b)
    ELSE index_ids(consume_string(Drop(buf, IDS_START_INDEX), IDS_START_INDEX), b)

\* &self.site_buf[range]: the slice, or a panic when the range is not in buf
Slice(buf, range) ==
    IF range[1] > range[2] \/ range[2] > Len(buf) THEN Panic
    ELSE Ok([k \in 1..(range[2] - range[1]) |-> buf[range[1] + k]])

\* impl Default for Fields
Fields_default ==
    [site_buf |-> <<0, 0, 0, 0,  0, 0, 0, 0,  1, 0, 0, 0,  1, 0, 128, 127,
                    0, 0,  1, 0,  0, 0, 0,  0,  7,  23, 78,  0>>,
     bounds |-> Bounds(<<24, 24>>, <<26, 27>>)]

\* the bytes after the prefix: type bytes of an absent value, of strings of
\* length 0 and 1, of an int8 scalar, and of a string whose length follows
TailBytes == {0, 7, 16 + 7, 16 + 1, 16 * 15 + 7}
Zeros(n) == [k \in 1..n |-> 0]

\* the site buffers a reader writes: empty, cut inside the prefix, or a
\* whole prefix and what follows it
\* strings whose length follows the type byte as an int8 value
LongTails == {<<16 * 15 + 7, 16 + 1, 0, 7>>, <<7, 16 * 15 + 7, 16 + 1, 0>>,
              <<16 * 15 + 7, 16 + 1, 1, 78, 16 + 7, 78>>}

SiteBufs ==
    {<<>>, Zeros(FORMAT_KEY_COUNT_INDEX)}
    \cup {Zeros(IDS_START_INDEX) \o tail : tail \in SeqsUpTo(TailBytes, MaxTail)}
    \cup {Zeros(IDS_START_INDEX) \o tail : tail \in LongTails}

FDIdle ==
    /\ site_buf = <<>>
    /\ bounds = Bounds(<<0, 0>>, <<0, 0>>)
    /\ fd_pc = "idle"
    /\ fd_result = None
    /\ fd_slice = None
    /\ fd_before = Bounds(<<0, 0>>, <<0, 0>>)

FDInit ==
    /\ site_buf = Fields_default.site_buf
    /\ bounds = Fields_default.bounds
    /\ fd_pc = "live"
    /\ fd_result = None
    /\ fd_slice = None
    /\ fd_before = Fields_default.bounds

\* fields.site_buf_mut(): the caller replaces the content of the buffer
SiteBufMut(buf) ==
    /\ fd_pc = "live"
    /\ buf /= site_buf
    /\ site_buf' = buf
    /\ fd_result' = None
    /\ fd_slice' = None
    /\ fd_before' = bounds
    /\ UNCHANGED <<bounds, fd_pc>>
    /\ UNCHANGED fd_frame

IndexReturns(r) ==
    /\ fd_result' = Some(r.result)
    /\ bounds' = r.bounds

\* fields.index()
Index ==
    /\ fd_pc = "live"
    /\ IndexReturns(index(site_buf, bounds))
    /\ fd_slice' = None
    /\ fd_before' = bounds
    /\ UNCHANGED <<site_buf, fd_pc>>
    /\ UNCHANGED fd_frame

\* fields.ids()
Ids ==
    /\ fd_pc = "live"
    /\ fd_slice' = Some(Slice(site_buf, bounds.ids_range))
    /\ UNCHANGED <<site_buf, bounds, fd_pc, fd_result, fd_before>>
    /\ UNCHANGED fd_frame

\* fields.reference_bases()
ReferenceBases ==
    /\ fd_pc = "live"
    /\ fd_slice' = Some(Slice(site_buf, bounds.reference_bases_range))
    /\ UNCHANGED <<site_buf, bounds, fd_pc, fd_result, fd_before>>
    /\ UNCHANGED fd_frame

FDNext ==
    \/ \E buf \in SiteBufs : SiteBufMut(buf)
    \/ Index
    \/ Ids
    \/ ReferenceBases

(***************************************************************************)
(* Properties of the lazy record fields.                                   *)
(***************************************************************************)
IndexResult == Unwrap(fd_result)

\* the identifiers string declares more bytes than the buffer still holds
IdsLengthExceedsBuffer ==
    /\ Len(site_buf) > IDS_START_INDEX
    /\ site_buf[IDS_START_INDEX + 1] \div 16 \in 1..14
    /\ site_buf[IDS_START_INDEX + 1] % 16 = 7
    /\ site_buf[IDS_START_INDEX + 1] \div 16 > Len(site_buf) - (IDS_START_INDEX + 1)

\* C13: index() returns a result on every site buffer and never aborts: it
\* fails with UnexpectedEof when the buffer is shorter than the fixed
\* prefix or a declared string length exceeds the remaining bytes
C13_IndexNeverAborts ==
    (fd_pc = "live" /\ fd_result /= None)
    => /\ IndexResult.status /= "Panic"
       /\ Len(site_buf) < IDS_START_INDEX => IndexResult = Err("UnexpectedEof")
       /\ IdsLengthExceedsBuffer => IndexResult = Err("UnexpectedEof")

InRange(range, buf) == range[1] <= range[2] /\ range[2] <= Len(buf)

\* C14: after any sequence of site_buf_mut writes and index() calls the
\* stored ids and reference bases ranges lie within site_buf, and ids() and
\* reference_bases() never slice out of range
C14_BoundsStayValid ==
    fd_pc = "live"
    => /\ InRange(bounds.ids_range, site_buf)
       /\ InRange(bounds.reference_bases_range, site_buf)
       /\ fd_slice /= None => Unwrap(fd_slice).status /= "Panic"

\* the bytes of the integer that follows a type byte whose count is 15
CountWidth(buf, at) ==
    CASE buf[at + 2] % 16 = 1 -> 1
      [] buf[at + 2] % 16 = 2 -> 2
      [] OTHER -> 4

\* the byte length of the string type header at offset `at` of buf
HeaderLength(buf, at) ==
    IF buf[at + 1] \div 16 < 15 THEN 1 ELSE 2 + CountWidth(buf, at)

\* the string length the header at offset `at` declares (little endian)
DeclaredLength(buf, at) ==
    IF buf[at + 1] \div 16 < 15 THEN buf[at + 1] \div 16
    ELSE buf[at + 3]
         + (IF CountWidth(buf, at) >= 2 THEN 256 * buf[at + 4] ELSE 0)
         + (IF CountWidth(buf, at) >= 4
            THEN 65536 * buf[at + 5] + 16777216 * buf[at + 6] ELSE 0)

IndexSucceeded == fd_pc = "live" /\ fd_result /= None /\ IndexResult.status = "Ok"

\* C21: when index() succeeds, ids_range is [24 + t1, 24 + t1 + n1) and
\* reference_bases_range is [ids_range.end + t2, ids_range.end + t2 + n2),
\* t1, t2 being the byte lengths of the two string type headers and n1, n2
\* their declared lengths; both are offsets into the whole buffer, with
\* 24 < ids.start <= ids.end < ref.start <= ref.end <= buffer length
C21_IndexRangesAreAbsolute ==
    IndexSucceeded =>
        LET ids == bounds.ids_range
            ref == bounds.reference_bases_range
        IN  /\ ids[1] = 24 + HeaderLength(site_buf, 24)
            /\ ids[2] = ids[1] + DeclaredLength(site_buf, 24)
            /\ ref[1] = ids[2] + HeaderLength(site_buf, ids[2])
            /\ ref[2] = ref[1] + DeclaredLength(site_buf, ids[2])
            /\ 24 < ids[1] /\ ids[1] <= ids[2] /\ ids[2] < ref[1]
            /\ ref[1] <= ref[2] /\ ref[2] <= Len(site_buf)

C21_Witness ==
    /\ IndexSucceeded
    /\ site_buf[IDS_START_INDEX + 1] = 16 * 15 + 7
    /\ bounds.ids_range = <<27, 28>>
    /\ bounds.reference_bases_range = <<29, 30>>

\* C27: if index() returns an error the stored boundaries are what they
\* were before the call: ids_range and reference_bases_range are both
\* updated (success) or both unchanged (failure)
C27_IndexErrorLeavesBounds ==
    (fd_pc = "live" /\ fd_result /= None /\ IndexResult.status = "Err")
    => bounds = fd_before

(***************************************************************************)
(* The projection of a record to a VCF record (record/convert.rs).         *)
(***************************************************************************)
\* io::Error: its kind and what it came from
io_Error(kind, source) == [kind |-> kind, source |-> source]

\* .map_err(|e| io::Error::new(io::ErrorKind::InvalidInput, e))
map_err_InvalidInput(r) ==
    IF r.status = "Err"
    THEN Err(io_Error("InvalidInput", Unwrap(r.err).source))
    ELSE r

\* the conversions with the position taken before the reference bases
vcf_record_PositionFirst(chromosome, steps) ==
    IF steps.position.status /= "Ok" THEN steps.position
    ELSE IF steps.reference_bases.status /= "Ok"
    THEN map_err_InvalidInput(steps.reference_bases)
    ELSE IF steps.alternate_bases.status /= "Ok" THEN steps.alternate_bases
    ELSE IF steps.filters.status /= "Ok" THEN steps.filters
    ELSE IF steps.info.status /= "Ok" THEN steps.info
    ELSE IF steps.genotypes.status /= "Ok" THEN steps.genotypes
    ELSE IF steps.ids.status /= "Ok" THEN map_err_InvalidInput(steps.ids)
    ELSE IF steps.quality_score.status /= "Ok" THEN steps.quality_score
    ELSE IF steps.build.status /= "Ok" THEN map_err_InvalidInput(steps.build)
    ELSE Ok([chromosome |-> chromosome])

\* the conversions after the chromosome, each followed by ?, in the order
\* of the code, and builder.build()
vcf_record(chromosome, steps) ==
    IF steps.reference_bases.status /= "Ok"
    THEN map_err_InvalidInput(steps.reference_bases)
    ELSE IF steps.alternate_bases.status /= "Ok" THEN steps.alternate_bases
    ELSE IF steps.filters.status /= "Ok" THEN steps.filters
    ELSE IF steps.info.status /= "Ok" THEN steps.info
    ELSE IF steps.genotypes.status /= "Ok" THEN steps.genotypes
    ELSE IF steps.position.status /= "Ok" THEN steps.position
    ELSE IF steps.ids.status /= "Ok" THEN map_err_InvalidInput(steps.ids)
    ELSE IF steps.quality_score.status /= "Ok" THEN steps.quality_score
    ELSE IF steps.build.status /= "Ok" THEN map_err_InvalidInput(steps.build)
    ELSE Ok([chromosome |-> chromosome])

\* try_into_vcf_record that takes an unbound chromosome id for "."
chromosome_of_Unchecked(entry, steps) ==
    IF entry = None THEN vcf_record(".", steps)
    ELSE vcf_record(Unwrap(entry), steps)

\* .ok_or_else(|| io::Error::new(io::ErrorKind::InvalidInput, "invalid chrom"))?
chromosome_of(entry, steps) ==
    IF entry = None THEN Err(io_Error("InvalidInput", "invalid chrom"))
    ELSE vcf_record(Unwrap(entry), steps)

\* pub fn try_into_vcf_record(&self, header, string_maps)
try_into_vcf_record(contigs, chromosome_id, steps) ==
    IF steps.chromosome_id.status /= "Ok" THEN steps.chromosome_id
    ELSE chromosome_of(get_index(contigs, chromosome_id), steps)

\* a contig record of a header: its ID and its IDX
ContigLines == ContigIds \X IdxHints

RECURSIVE InsertContigs(_, _)
\* the contig dictionary from_str builds from contig records
InsertContigs(m, lines) ==
    IF lines = <<>> THEN m
    ELSE InsertContigs(insert(m, Head(lines)[1], Head(lines)[2]).string_map,
                       Tail(lines))

ContigMaps ==
    {InsertContigs(StringMap_default, lines) : lines \in SeqsUpTo(ContigLines, MaxKeys)}

\* the steps of the conversion whose outcome comes from the record
StepNames == {"chromosome_id", "reference_bases", "alternate_bases", "filters",
              "info", "genotypes", "position", "ids", "quality_score", "build"}

\* how a step fails: with the io::Error of the accessor, with an error that
\* map_err wraps, or, for the slices of the site buffer, with a panic
StepFailures(step) ==
    CASE step \in {"reference_bases", "ids"} -> {Err(io_Error("Utf8Error", step)), Panic}
      [] step = "build" -> {Err(io_Error("BuildError", step))}
      [] OTHER -> {Err(io_Error("InvalidData", step))}

AllOk == [step \in StepNames |-> Ok(<<>>)]

\* the outcomes of the steps of a record: at most two of them fail
StepResults ==
    {AllOk}
    \cup UNION {{[AllOk EXCEPT ![a] = fa] : fa \in StepFailures(a)} :
                a \in StepNames}
    \cup UNION {{[AllOk EXCEPT ![q[1]] = fa, ![q[2]] = fb] :
                    fa \in StepFailures(q[1]), fb \in StepFailures(q[2])} :
                q \in {q \in StepNames \X StepNames : q[1] /= q[2]}}

CVIdle ==
    /\ cv_contigs = StringMap_default
    /\ cv_chromosome_id = 0
    /\ cv_steps = AllOk
    /\ cv_pc = "idle"
    /\ cv_result = None

CVInit ==
    /\ cv_contigs \in ContigMaps
    /\ cv_chromosome_id \in 0..(MaxIdx + 1)
    /\ cv_steps \in StepResults
    /\ cv_pc = "ready"
    /\ cv_result = None

\* record.try_into_vcf_record(&header, &string_maps)
TryIntoVcfRecord ==
    /\ cv_pc = "ready"
    /\ cv_pc' = "done"
    /\ cv_result' = Some(try_into_vcf_record(cv_contigs, cv_chromosome_id,
                                             cv_steps))
    /\ UNCHANGED <<cv_contigs, cv_chromosome_id, cv_steps>>
    /\ UNCHANGED cv_frame

\* the chromosome id is at or past the end of the table, or at a hole
ChromosomeUnbound ==
    \/ cv_chromosome_id >= Len(cv_contigs.entries)
    \/ cv_contigs.entries[cv_chromosome_id + 1] = None

ConvertResult == Unwrap(cv_result)

\* C15: try_into_vcf_record fails with InvalidInput whenever the chromosome
\* id is not bound in the contig dictionary, and otherwise the record it
\* returns has the identifier bound at that index as its chromosome
C15_UnboundChromosomeIsInvalidInput ==
    (cv_pc = "done" /\ cv_steps.chromosome_id.status = "Ok")
    => IF ChromosomeUnbound
       THEN ConvertResult = Err(io_Error("InvalidInput", "invalid chrom"))
       ELSE ConvertResult.status = "Ok"
            => ConvertResult.value.chromosome
                   = Unwrap(cv_contigs.entries[cv_chromosome_id + 1])

C15_Witness ==
    /\ cv_pc = "done"
    /\ cv_chromosome_id + 1 < Len(cv_contigs.entries)
    /\ cv_contigs.entries[cv_chromosome_id + 1] = None
    /\ cv_steps = AllOk
    /\ ConvertResult = Err(io_Error("InvalidInput", "invalid chrom"))

\* the steps in the order contig name, reference bases, alternate bases,
\* filters, INFO, genotypes, position, ids, quality score, record build;
\* the contig name is the chromosome id and its lookup
StepOrder == <<"chromosome_id", "contig_name", "reference_bases",
               "alternate_bases", "filters", "info", "genotypes", "position",
               "ids", "quality_score", "build">>

StepFails(k) ==
    IF StepOrder[k] = "contig_name" THEN ChromosomeUnbound
    ELSE cv_steps[StepOrder[k]].status /= "Ok"

FailingSteps == {k \in 1..Len(StepOrder) : StepFails(k)}
FirstFailing == CHOOSE k \in FailingSteps : \A h \in FailingSteps : k <= h

\* the kind of io::Error a failing step returns: its own, or InvalidInput
\* where the code wraps the error
KindReturned(step) ==
    IF step \in {"contig_name", "reference_bases", "ids", "build"}
    THEN "InvalidInput"
    ELSE "InvalidData"

SourceReturned(step) == IF step = "contig_name" THEN "invalid chrom" ELSE step

\* C23: try_into_vcf_record fails fast: it returns the error of the first
\* failing step in the order contig name, reference bases, alternate bases,
\* filters, INFO, genotypes, position, ids, quality score, record build,
\* and returns no record when any step fails
C23_FailsFastInOrder ==
    cv_pc = "done"
    => /\ ConvertResult.status = "Ok" <=> FailingSteps = {}
       /\ (/\ FailingSteps /= {}
           /\ StepOrder[FirstFailing] \in {"reference_bases", "ids"}
              => cv_steps[StepOrder[FirstFailing]].status = "Err")
          => ConvertResult =
                 Err(io_Error(KindReturned(StepOrder[FirstFailing]),
                              SourceReturned(StepOrder[FirstFailing])))

C23_Witness ==
    /\ cv_pc = "done"
    /\ ~ChromosomeUnbound
    /\ cv_steps.reference_bases.status = "Ok"
    /\ cv_steps.info.status = "Err"
    /\ cv_steps.build.status = "Err"
    /\ ConvertResult = Err(io_Error("InvalidData", "info"))

(***************************************************************************)
(* The VCF header parser (noodles-vcf header/parser.rs).  A line is given  *)
(* by what record::parse_record makes of it: [kind, id, fields], the kind  *)
(* of the record ("Invalid" when it does not parse, "Header" when it       *)
(* starts with #CHROM), its ID, and the tab-separated fields of a #CHROM   *)
(* line.  An IndexMap or IndexSet is the sequence of its keys.             *)
(***************************************************************************)
HEADERS == <<"#CHROM", "POS", "ID", "REF", "ALT", "QUAL", "FILTER", "INFO">>
FORMAT_HEADER == "FORMAT"

\* key: the key of a record that is none of the known kinds (##key=..)
HeaderLine(kind, id, fields) ==
    [kind |-> kind, id |-> id, fields |-> fields, key |-> ""]
OtherHeaderLine(key, id) == [HeaderLine("Other", id, <<>>) EXCEPT !.key = key]

\* impl Default for Parser, with the file format option of the builder
Parser_default(file_format_option) ==
    [file_format_option |-> file_format_option,
     state |-> "Empty",
     file_format |-> "FileFormat::default",
     infos |-> <<>>,
     filters |-> <<>>,
     formats |-> <<>>,
     alternative_alleles |-> <<>>,
     contigs |-> <<>>,
     sample_names |-> <<>>,
     other_records |-> <<>>]

Parsed(result, p) == [result |-> result, parser |-> p]

\* IndexMap::insert / IndexSet::insert on the keys
Keys_insert(keys, key) ==
    IF \E k \in 1..Len(keys) : keys[k] = key THEN keys ELSE Append(keys, key)
Keys_contains(keys, key) == \E k \in 1..Len(keys) : keys[k] = key

\* s.starts_with("#CHROM")
starts_with_CHROM(line) == line.kind = "Header"

\* record::parse_record: Err for a line that is no ## record
parse_record(line) ==
    IF line.kind \in {"Invalid", "Header"} THEN Err(ParseError("InvalidRecord"))
    ELSE Ok(line)

\* match record { Record::FileFormat(f) => Ok(f), _ => Err(MissingFileFormat) }
parse_file_format_record(r) ==
    IF r.status = "Err" THEN r
    ELSE IF r.value.kind = "FileFormat" THEN Ok(r.value.id)
    ELSE Err(ParseError("MissingFileFormat"))

\* fn parse_file_format(s)
parse_file_format(line) == parse_file_format_record(parse_record(line))

\* a collection of other records: Unstructured(Vec) by the number of its
\* values, Structured(IndexMap) by its IDs
Collection(structured, n, ids) == [structured |-> structured, n |-> n, ids |-> ids]

\* OtherRecords, an IndexMap<key, Collection>: its entries in insertion order
OtherRecords_contains(other_records, key) ==
    \E k \in 1..Len(other_records) : other_records[k].key = key
OtherRecords_index(other_records, key) ==
    CHOOSE k \in 1..Len(other_records) : other_records[k].key = key

\* other_records.entry(key).or_insert_with(|| match value { .. }): a vacant
\* key gets an empty collection of the kind of the value
or_insert_with(other_records, key, id) ==
    IF OtherRecords_contains(other_records, key) THEN other_records
    ELSE Append(other_records,
                [key |-> key, collection |-> Collection(id /= "", 0, <<>>)])

\* Collection::add
Collection_add(collection, id) ==
    IF collection.structured
    THEN IF id = "" THEN Err(ParseError("InvalidRecordValue"))
         ELSE IF Keys_contains(collection.ids, id)
         THEN Err(ParseError("InvalidRecordValue"))
         ELSE Ok([collection EXCEPT !.ids = Append(@, id)])
    ELSE IF id /= "" THEN Err(ParseError("InvalidRecordValue"))
         ELSE Ok([collection EXCEPT !.n = @ + 1])

\* collection.add(value).map_err(ParseError::InvalidRecordValue)?
insert_other_record_add(added, k, entries, p) ==
    IF added.status = "Err" THEN Parsed(added, [p EXCEPT !.other_records = entries])
    ELSE Parsed(Ok(<<>>),
                [p EXCEPT !.other_records =
                              [entries EXCEPT ![k].collection = added.value]])

\* the collection of the key in the entries or_insert_with has left
insert_other_record_entry(k, entries, id, p) ==
    insert_other_record_add(Collection_add(entries[k].collection, id),
                            k, entries, p)

\* fn insert_other_record(other_records, key, value)
insert_other_record(p, key, id) ==
    insert_other_record_entry(
        OtherRecords_index(or_insert_with(p.other_records, key, id), key),
        or_insert_with(p.other_records, key, id), id, p)

HeaderParsed(result, sample_names) == [result |-> result, sample_names |-> sample_names]

RECURSIVE parse_header_samples(_, _)
\* for sample_name in fields { if !sample_names.insert(..) { DuplicateSampleName } }
parse_header_samples(fields, sample_names) ==
    IF fields = <<>> THEN HeaderParsed(Ok(<<>>), sample_names)
    ELSE IF Keys_contains(sample_names, Head(fields))
    THEN HeaderParsed(Err([error |-> "DuplicateSampleName", of |-> <<Head(fields)>>]),
                      sample_names)
    ELSE parse_header_samples(Tail(fields), Append(sample_names, Head(fields)))

InvalidHeader(actual, expected) ==
    [error |-> "InvalidHeader", of |-> <<actual, expected>>]
DuplicateSampleName(name) == [error |-> "DuplicateSampleName", of |-> <<name>>]

\* if let Some(field) = fields.next() { if field != FORMAT_HEADER { .. } .. }
parse_header_format(fields, sample_names) ==
    IF fields = <<>> THEN HeaderParsed(Ok(<<>>), sample_names)
    ELSE IF Head(fields) /= FORMAT_HEADER
    THEN HeaderParsed(Err(InvalidHeader(Head(fields), FORMAT_HEADER)), sample_names)
    ELSE parse_header_samples(Tail(fields), sample_names)

RECURSIVE parse_header_columns(_, _, _)
\* for &expected in HEADERS.iter() { .. }
parse_header_columns(fields, expected, sample_names) ==
    IF expected = <<>> THEN parse_header_format(fields, sample_names)
    ELSE IF fields = <<>>
    THEN HeaderParsed(Err(InvalidHeader("", Head(expected))), sample_names)
    ELSE IF Head(fields) /= Head(expected)
    THEN HeaderParsed(Err(InvalidHeader(Head(fields), Head(expected))), sample_names)
    ELSE parse_header_columns(Tail(fields), Tail(expected), sample_names)

\* fn parse_header(line, sample_names)
parse_header(line, sample_names) ==
    parse_header_columns(line.fields, HEADERS, sample_names)

\* parse_header(s, &mut self.sample_names)?; self.state = State::Done
parse_partial_header(h, p) ==
    IF h.result.status = "Err"
    THEN Parsed(h.result, [p EXCEPT !.sample_names = h.sample_names])
    ELSE Parsed(Ok(<<>>), [p EXCEPT !.sample_names = h.sample_names,
                                    !.state = "Done"])

\* match record { .. }
parse_partial_record(r, p) ==
    IF r.status = "Err" THEN Parsed(r, p)
    ELSE CASE r.value.kind = "FileFormat" ->
                Parsed(Err(ParseError("UnexpectedFileFormat")), p)
           [] r.value.kind = "Info" ->
                Parsed(Ok(<<>>), [p EXCEPT !.infos = Keys_insert(@, r.value.id)])
           [] r.value.kind = "Filter" ->
                Parsed(Ok(<<>>), [p EXCEPT !.filters = Keys_insert(@, r.value.id)])
           [] r.value.kind = "Format" ->
                Parsed(Ok(<<>>), [p EXCEPT !.formats = Keys_insert(@, r.value.id)])
           [] r.value.kind = "AlternativeAllele" ->
                Parsed(Ok(<<>>),
                       [p EXCEPT !.alternative_alleles = Keys_insert(@, r.value.id)])
           [] r.value.kind = "Contig" ->
                Parsed(Ok(<<>>), [p EXCEPT !.contigs = Keys_insert(@, r.value.id)])
           [] r.value.kind = "Other" ->
                insert_other_record(p, r.value.key, r.value.id)

\* the Empty state: the file format of the line or of the option
parse_partial_file_format(f, p) ==
    IF f.status = "Err" THEN Parsed(f, p)
    ELSE Parsed(Ok(<<>>),
                [p EXCEPT !.file_format =
                              IF p.file_format_option = "Auto" THEN f.value
                              ELSE p.file_format_option,
                          !.state = "Ready"])

\* ParseError::ExpectedEof, as a step of its own
ExpectedEof == Err(ParseError("ExpectedEof"))

\* parse_partial that reads on after the #CHROM line
parse_partial_NoEof(p, line) ==
    IF p.state = "Empty" THEN parse_partial_file_format(parse_file_format(line), p)
    ELSE IF starts_with_CHROM(line)
    THEN parse_partial_header(parse_header(line, p.sample_names), p)
    ELSE parse_partial_record(parse_record(line), p)

\* parse_partial that takes a fileformat record on any line
parse_partial_AnyFileFormat(p, line) ==
    IF p.state = "Done" THEN Parsed(ExpectedEof, p)
    ELSE IF p.state = "Empty" \/ line.kind = "FileFormat"
    THEN parse_partial_file_format(parse_file_format(line), p)
    ELSE IF starts_with_CHROM(line)
    THEN parse_partial_header(parse_header(line, p.sample_names), p)
    ELSE parse_partial_record(parse_record(line), p)

\* pub fn parse_partial(&mut self, s: &str) -> Result<(), ParseError>
parse_partial(p, line) ==
    IF p.state = "Done" THEN Parsed(ExpectedEof, p)
    ELSE IF p.state = "Empty"
    THEN parse_partial_file_format(parse_file_format(line), p)
    ELSE IF starts_with_CHROM(line)
    THEN parse_partial_header(parse_header(line, p.sample_names), p)
    ELSE parse_partial_record(parse_record(line), p)

\* the Header finish builds from the fields of the parser
Header(p) ==
    [file_format |-> p.file_format, infos |-> p.infos, filters |-> p.filters,
     formats |-> p.formats, alternative_alleles |-> p.alternative_alleles,
     contigs |-> p.contigs, sample_names |-> p.sample_names,
     other_records |-> p.other_records]

\* pub fn finish(self) -> Result<Header, ParseError>
finish(p) ==
    CASE p.state = "Empty" -> Err(ParseError("Empty"))
      [] p.state = "Ready" -> Err(ParseError("MissingHeader"))
      [] p.state = "Done" -> Ok(Header(p))

\* the lines given to the parser
SampleNames == {"sample0", "sample1"}
WrongColumn(k) == IF k = 1 THEN "#CHROMS" ELSE "QUALITY"
\* #CHROM lines: columns missing after the k-th, the k-th column wrong (and
\* the last one as well), and all eight columns followed by a ninth and by
\* sample names
ChromLines ==
    {HeaderLine("Header", "", Take(HEADERS, k)) : k \in {3, 7, 8}}
    \cup {HeaderLine("Header", "",
                     [HEADERS EXCEPT ![k] = WrongColumn(k), ![8] = "QUALITY"])
            : k \in {1, 6, 8}}
    \cup {HeaderLine("Header", "", HEADERS \o <<FORMAT_HEADER>> \o samples)
            : samples \in SeqsUpTo(SampleNames, MaxSamples)}
    \cup {HeaderLine("Header", "", HEADERS \o <<"sample0">>)}
RecordKinds == {"Info", "Filter", "Format", "AlternativeAllele", "Contig"}
RecordId(kind) ==
    CASE kind = "Info" -> "NS"
      [] kind = "Filter" -> "q10"
      [] kind = "Format" -> "GT"
      [] kind = "AlternativeAllele" -> "DEL"
      [] kind = "Contig" -> "sq0"
FileFormatOptions == {"Auto", "VCFv4.2"}

PIdle ==
    /\ parser = Parser_default("Auto")
    /\ p_pc = "idle"
    /\ p_line = HeaderLine("Invalid", "", <<>>)
    /\ p_before = parser
    /\ p_result = None
    /\ p_finish = None

\* Parser::default(), or Parser::builder().set_file_format_option(..).build()
PInit ==
    /\ parser \in {Parser_default(o) : o \in FileFormatOptions}
    /\ p_pc = "live"
    /\ p_line = HeaderLine("Invalid", "", <<>>)
    /\ p_before = parser
    /\ p_result = None
    /\ p_finish = None

\* parser.parse_partial(line)
ParsePartial(line) ==
    /\ p_pc = "live"
    /\ p_line' = line
    /\ p_before' = parser
    /\ parser' = parse_partial(parser, line).parser
    /\ p_result' = Some(parse_partial(parser, line).result)
    /\ UNCHANGED <<p_pc, p_finish>>
    /\ UNCHANGED p_frame

\* a ##fileformat line
FileFormatLine ==
    /\ p_pc = "live"
    /\ ParsePartial(HeaderLine("FileFormat", "VCFv4.3", <<>>))

\* a ##INFO, ##FILTER, ##FORMAT, ##ALT or ##contig line
RecordLine(kind) ==
    /\ kind \in RecordKinds
    /\ ParsePartial(HeaderLine(kind, RecordId(kind), <<>>))

\* the other records of the model, each a key and the ID of its value:
\* ##fileDate=.. (no ID), ##fileDate=<ID=Assay,..> and ##META=<ID=Assay,..>
OtherLines == {<<"fileDate", "">>, <<"fileDate", "Assay">>, <<"META", "Assay">>}

\* another ## line: ##key=value (no ID) or ##key=<ID=id,..>; the values of
\* an unstructured collection are counted up to MaxValues
OtherRecordLine(key, id) ==
    /\ IF id /= "" \/ ~OtherRecords_contains(parser.other_records, key) THEN TRUE
       ELSE parser.other_records[OtherRecords_index(parser.other_records, key)]
                .collection.n < MaxValues
    /\ ParsePartial(OtherHeaderLine(key, id))

\* a line record::parse_record rejects
InvalidLine ==
    /\ p_pc = "live"
    /\ ParsePartial(HeaderLine("Invalid", "", <<>>))

\* a line starting with #CHROM
ChromLine(line) ==
    /\ starts_with_CHROM(line)
    /\ ParsePartial(line)

\* parser.finish()
Finish ==
    /\ p_pc = "live"
    /\ p_pc' = "finished"
    /\ p_finish' = Some(finish(parser))
    /\ p_line' = HeaderLine("Invalid", "", <<>>)
    /\ p_before' = parser
    /\ p_result' = None
    /\ UNCHANGED parser
    /\ UNCHANGED p_frame

PNext ==
    \/ FileFormatLine
    \/ \E kind \in RecordKinds : RecordLine(kind)
    \/ \E o \in OtherLines : OtherRecordLine(o[1], o[2])
    \/ InvalidLine
    \/ \E line \in ChromLines : ChromLine(line)
    \/ Finish

(***************************************************************************)
(* Properties of the VCF header parser.                                    *)
(***************************************************************************)
\* the last step was a parse_partial call
Called == p_pc = "live" /\ p_result /= None
CallResult == Unwrap(p_result)
ValidRecordKinds == RecordKinds \cup {"Other"}

\* C16 as stated: a fileformat record is accepted on the first line; a
\* first line that is another valid record fails with MissingFileFormat
\* and leaves the parser Empty; a fileformat record on any later line
\* fails with UnexpectedFileFormat
C16_FileFormatOnAnyLaterLine ==
    Called =>
        /\ (p_before.state = "Empty" /\ p_line.kind = "FileFormat")
           => CallResult.status = "Ok"
        /\ (p_before.state = "Empty" /\ p_line.kind \in ValidRecordKinds)
           => /\ CallResult = Err(ParseError("MissingFileFormat"))
              /\ parser.state = "Empty"
        /\ (p_before.state /= "Empty" /\ p_line.kind = "FileFormat")
           => CallResult = Err(ParseError("UnexpectedFileFormat"))

\* C16 (amended): a fileformat record is accepted on the first line and
\* only there; a first line that is another valid record fails with
\* MissingFileFormat and leaves the parser Empty; a fileformat record on a
\* later line fails with UnexpectedFileFormat before the #CHROM line was
\* accepted, and with ExpectedEof after it
C16_FileFormatOnlyFirst ==
    Called =>
        /\ (p_before.state = "Empty" /\ p_line.kind = "FileFormat")
           => CallResult.status = "Ok" /\ parser.state = "Ready"
        /\ (p_before.state = "Empty" /\ p_line.kind \in ValidRecordKinds)
           => /\ CallResult = Err(ParseError("MissingFileFormat"))
              /\ parser.state = "Empty"
        /\ (p_before.state = "Ready" /\ p_line.kind = "FileFormat")
           => CallResult = Err(ParseError("UnexpectedFileFormat"))
        /\ (p_before.state = "Done" /\ p_line.kind = "FileFormat")
           => CallResult = Err(ParseError("ExpectedEof"))
        /\ (p_before.state /= "Empty" /\ p_line.kind = "FileFormat")
           => parser = p_before

C16_Witness ==
    /\ Called
    /\ p_before.state = "Ready"
    /\ p_before.contigs /= <<>>
    /\ p_line.kind = "FileFormat"
    /\ CallResult = Err(ParseError("UnexpectedFileFormat"))

\* C17: once the #CHROM line was accepted every parse_partial call fails
\* with ExpectedEof and changes nothing; finish returns a Header exactly in
\* that state, Err(Empty) when no line was accepted and Err(MissingHeader)
\* when a fileformat line but no #CHROM line was accepted
C17_DoneIsFinal ==
    /\ (Called /\ p_before.state = "Done")
       => CallResult = Err(ParseError("ExpectedEof")) /\ parser = p_before
    /\ p_finish /= None
       => Unwrap(p_finish) =
            (CASE parser.state = "Done" -> Ok(Header(parser))
               [] parser.state = "Ready" -> Err(ParseError("MissingHeader"))
               [] parser.state = "Empty" -> Err(ParseError("Empty")))
    /\ (p_pc /= "idle" /\ parser.state = "Empty")
       => parser = Parser_default(parser.file_format_option)

C17_Witness ==
    /\ Called
    /\ p_before.state = "Done"
    /\ p_line.kind = "Contig"
    /\ p_before.contigs = <<>>
    /\ CallResult = Err(ParseError("ExpectedEof"))
    /\ parser = p_before

\* the first column of a #CHROM line that is wrong or missing, 0 if none
FirstOffending(fields) ==
    IF \E k \in 1..Len(HEADERS) : k > Len(fields) \/ fields[k] /= HEADERS[k]
    THEN CHOOSE k \in 1..Len(HEADERS) :
            /\ k > Len(fields) \/ fields[k] /= HEADERS[k]
            /\ \A h \in 1..(k - 1) : h <= Len(fields) /\ fields[h] = HEADERS[h]
    ELSE IF Len(fields) > Len(HEADERS) /\ fields[Len(HEADERS) + 1] /= FORMAT_HEADER
    THEN Len(HEADERS) + 1
    ELSE 0

ExpectedColumn(k) == IF k <= Len(HEADERS) THEN HEADERS[k] ELSE FORMAT_HEADER
ActualColumn(fields, k) == IF k > Len(fields) THEN "" ELSE fields[k]

\* a sample name of a #CHROM line (columns 10 and on) that occurs twice
RepeatedSamples(fields) ==
    {fields[a] : a \in {a \in 10..Len(fields) :
                          \E b \in 10..Len(fields) : b /= a /\ fields[b] = fields[a]}}

\* C18: the #CHROM line is accepted exactly when its eight columns are the
\* expected ones, a ninth is FORMAT and the sample names are pairwise
\* distinct; the first wrong or missing column fails with
\* InvalidHeader(actual, expected), a repeated sample name with
\* DuplicateSampleName(name)
C18_ChromLineAccepted ==
    (Called /\ p_before.state = "Ready" /\ p_line.kind = "Header")
    => IF FirstOffending(p_line.fields) /= 0
       THEN CallResult =
                Err(InvalidHeader(
                        ActualColumn(p_line.fields, FirstOffending(p_line.fields)),
                        ExpectedColumn(FirstOffending(p_line.fields))))
       ELSE IF RepeatedSamples(p_line.fields) /= {}
       THEN \E name \in RepeatedSamples(p_line.fields) :
                CallResult = Err(DuplicateSampleName(name))
       ELSE CallResult.status = "Ok" /\ parser.state = "Done"

\* C28: a parse_partial call that returns an error leaves the Parser
\* unchanged (state, file format, collected records and sample names), so
\* nothing of a rejected line is present in a header finished later
C28_ErrorLeavesParserUnchanged ==
    (Called /\ CallResult.status = "Err") => parser = p_before

(***************************************************************************)
(* StringMaps::from_str over a whole header text, and the same text parsed *)
(* to a vcf::Header and mapped by From<&vcf::Header>.  A line is what the  *)
(* record parser makes of it, with the IDX of the record.                  *)
(***************************************************************************)
MaxLines == 4

TextLine(kind, id, idx) ==
    [kind |-> kind, id |-> id, idx |-> idx, fields |-> <<>>, key |-> ""]

\* fn parse_file_format(lines: &mut Lines<'_>)
StringMaps_parse_file_format(lines) ==
    IF lines = <<>> THEN Err(ParseError("MissingFileFormat"))
    ELSE IF Head(lines).kind \in {"Invalid", "Header"}
    THEN Err(ParseError("InvalidRecord"))
    ELSE IF Head(lines).kind = "FileFormat" THEN Ok(Head(lines).id)
    ELSE Err(ParseError("InvalidRecordValue"))

RECURSIVE from_str_loop(_, _)

\* insert(string_maps.contigs_mut(), ..)?
from_str_contig(r, rest, string_maps) ==
    IF IsSome(r.err) THEN Err(Unwrap(r.err))
    ELSE from_str_loop(rest, [string_maps EXCEPT !.contig_string_map = r.string_map])

\* insert(string_maps.strings_mut(), ..)?
from_str_string(r, rest, string_maps) ==
    IF IsSome(r.err) THEN Err(Unwrap(r.err))
    ELSE from_str_loop(rest, [string_maps EXCEPT !.string_string_map = r.string_map])

\* match record { .. }
from_str_record(line, rest, string_maps) ==
    CASE line.kind = "Contig" ->
            from_str_contig(insert(string_maps.contig_string_map, line.id, line.idx),
                            rest, string_maps)
      [] line.kind \in {"Filter", "Format", "Info"} ->
            from_str_string(insert(string_maps.string_string_map, line.id, line.idx),
                            rest, string_maps)
      [] OTHER -> from_str_loop(rest, string_maps)

\* the loop body without the break at the #CHROM line
from_str_line_NoBreak(line, rest, string_maps) ==
    IF line.kind \in {"Invalid", "Header"} THEN Err(ParseError("InvalidRecord"))
    ELSE from_str_record(line, rest, string_maps)

\* if line.starts_with("#CHROM") { break; }
\* Record::try_from((file_format, line)).map_err(ParseError::InvalidRecord)?
from_str_line(line, rest, string_maps) ==
    IF starts_with_CHROM(line) THEN Ok(string_maps)
    ELSE IF line.kind = "Invalid" THEN Err(ParseError("InvalidRecord"))
    ELSE from_str_record(line, rest, string_maps)

\* for line in &mut lines { .. } Ok(string_maps)
from_str_loop(lines, string_maps) ==
    IF lines = <<>> THEN Ok(string_maps)
    ELSE from_str_line(Head(lines), Tail(lines), string_maps)

\* let file_format = parse_file_format(&mut lines)?;
from_str_lines(file_format, lines) ==
    IF file_format.status = "Err" THEN file_format
    ELSE from_str_loop(Tail(lines), StringMaps_default)

\* impl FromStr for StringMaps
from_str(lines) == from_str_lines(StringMaps_parse_file_format(lines), lines)

RECURSIVE parse_lines(_, _)

\* parser.parse_partial(line)?;
parse_line(parsed, rest) ==
    IF parsed.result.status = "Err" THEN parsed.result
    ELSE parse_lines(parsed.parser, rest)

\* for line in s.lines() { .. } parser.finish()
parse_lines(p, lines) ==
    IF lines = <<>> THEN finish(p)
    ELSE parse_line(parse_partial(p, Head(lines)), Tail(lines))

\* Parser::parse(&self, s)
Parser_parse(lines) == parse_lines(Parser_default("Auto"), lines)

\* StringMaps::from(&header) of the header the text parses to
from_parsed(header) ==
    IF header.status = "Err" THEN header
    ELSE Ok(StringMaps_from(header.value))

\* the lines of a header text
TextLines ==
    {TextLine("FileFormat", "VCFv4.3", None),
     TextLine("Info", "DP", None),
     TextLine("Filter", "NS", None),
     TextLine("Format", "DP", None),
     TextLine("Contig", "sq0", Some(1)),
     [TextLine("Other", "", None) EXCEPT !.key = "fileDate"],
     [TextLine("Other", "Assay", None) EXCEPT !.key = "META"],
     TextLine("Invalid", "", None),
     [TextLine("Header", "", None) EXCEPT !.fields = HEADERS]}

Texts == SeqsUpTo(TextLines, MaxLines)

FSIdle ==
    /\ fs_text = <<>>
    /\ fs_pc = "idle"
    /\ fs_from_str = None
    /\ fs_from = None

FSInit ==
    /\ fs_text \in Texts
    /\ fs_pc = "text"
    /\ fs_from_str = None
    /\ fs_from = None

\* s.parse::<StringMaps>()
FromStr ==
    /\ fs_pc = "text"
    /\ fs_pc' = "from_str"
    /\ fs_from_str' = Some(from_str(fs_text))
    /\ UNCHANGED <<fs_text, fs_from>>
    /\ UNCHANGED fs_frame

\* StringMaps::from(&s.parse::<vcf::Header>()?)
FromParsedHeader ==
    /\ fs_pc = "from_str"
    /\ fs_pc' = "both"
    /\ fs_from' = Some(from_parsed(Parser_parse(fs_text)))
    /\ UNCHANGED <<fs_text, fs_from_str>>
    /\ UNCHANGED fs_frame

FSNext ==
    \/ FromStr
    \/ FromParsedHeader

(***************************************************************************)
(* Properties of from_str over a header text.                              *)
(***************************************************************************)
FromStrResult == Unwrap(fs_from_str)

\* the lines before the first line that starts with #CHROM
BeforeChrom(lines) ==
    IF \E k \in 1..Len(lines) : lines[k].kind = "Header"
    THEN Take(lines, (CHOOSE k \in 1..Len(lines) :
                         /\ lines[k].kind = "Header"
                         /\ \A h \in 1..(k - 1) : lines[h].kind /= "Header") - 1)
    ELSE lines

\* C24: from_str requires the first line to be a fileformat record: it fails
\* with MissingFileFormat on empty input, InvalidRecord when the first line
\* does not parse as a header record, and InvalidRecordValue when it is a
\* valid record other than fileformat; it stops reading at the first line
\* starting with #CHROM, so later lines never affect the dictionaries
C24_FromStrFirstLineAndBreak ==
    fs_pc \in {"from_str", "both"} =>
        /\ fs_text = <<>> => FromStrResult = Err(ParseError("MissingFileFormat"))
        /\ (fs_text /= <<>> /\ Head(fs_text).kind \in {"Invalid", "Header"})
           => FromStrResult = Err(ParseError("InvalidRecord"))
        /\ (/\ fs_text /= <<>>
            /\ Head(fs_text).kind \notin {"Invalid", "Header", "FileFormat"})
           => FromStrResult = Err(ParseError("InvalidRecordValue"))
        /\ (fs_text /= <<>> /\ Head(fs_text).kind = "FileFormat")
           => FromStrResult = from_str(BeforeChrom(fs_text))

C24_Witness ==
    /\ fs_pc = "from_str"
    /\ Len(fs_text) = 4
    /\ fs_text[1].kind = "FileFormat"
    /\ fs_text[2].kind = "Info"
    /\ fs_text[3].kind = "Header"
    /\ fs_text[4].kind = "Invalid"
    /\ FromStrResult.status = "Ok"
    /\ DOMAIN FromStrResult.value.string_string_map.indices = {"PASS", "DP"}

\* C26: for the same header text, the dictionaries from_str parses equal the
\* dictionaries From<&vcf::Header> builds from the parsed header: every
\* identifier gets the same index on both paths
C26_FromStrEqualsFromHeader ==
    (/\ fs_pc = "both"
     /\ FromStrResult.status = "Ok"
     /\ Unwrap(fs_from).status = "Ok")
    => FromStrResult.value = Unwrap(fs_from).value

(***************************************************************************)
(* Interval (noodles-core/src/region/interval.rs).                         *)
(***************************************************************************)
MaxPosition == 5

\* Position is a NonZeroUsize: MIN is 1; MAX, usize::MAX, is the largest
\* position of the model
Position_MIN == 1
Position_MAX == MaxPosition
Positions == Position_MIN..Position_MAX

Included(position) == [bound |-> "Included", position |-> Some(position)]
Unbounded == [bound |-> "Unbounded", position |-> None]

Interval(start, end) == [start |-> start, end |-> end]

\* Interval::new
Interval_new(start, end) == Interval(Included(start), Included(end))

\* Interval::start / Interval::end
Interval_start(interval) == interval.start.position
Interval_end(interval) == interval.end.position

unwrap_or(option, default) == IF IsSome(option) THEN Unwrap(option) ELSE default

\* fn resolve(interval) -> (Position, Position)
resolve(interval) ==
    <<unwrap_or(Interval_start(interval), Position_MIN),
      unwrap_or(Interval_end(interval), Position_MAX)>>

\* a_start <= b_end && b_start <= a_end
intersects_resolved(a_start, a_end, b_start, b_end) ==
    a_start <= b_end /\ b_start <= a_end

\* Interval::intersects
intersects(self, other) ==
    intersects_resolved(resolve(self)[1], resolve(self)[2],
                        resolve(other)[1], resolve(other)[2])

\* Interval::new(start, end) and the From impls for start..=end, start..,
\* ..=end and ..
Intervals ==
    {Interval_new(start, end) : start \in Positions, end \in Positions}
        \cup {Interval(Included(start), Unbounded) : start \in Positions}
        \cup {Interval(Unbounded, Included(end)) : end \in Positions}
        \cup {Interval(Unbounded, Unbounded)}

IVIdle ==
    /\ iv_self = Interval(Unbounded, Unbounded)
    /\ iv_other = Interval(Unbounded, Unbounded)
    /\ iv_pc = "idle"
    /\ iv_result = None
    /\ iv_swapped = None

IVInit ==
    /\ iv_self \in Intervals
    /\ iv_other \in Intervals
    /\ iv_pc = "built"
    /\ iv_result = None
    /\ iv_swapped = None

\* self.intersects(other)
Intersects ==
    /\ iv_pc = "built"
    /\ iv_result' = Some(intersects(iv_self, iv_other))
    /\ iv_pc' = "called"
    /\ UNCHANGED <<iv_self, iv_other, iv_swapped>>
    /\ UNCHANGED iv_frame

\* other.intersects(self)
IntersectsSwapped ==
    /\ iv_pc = "called"
    /\ iv_swapped' = Some(intersects(iv_other, iv_self))
    /\ iv_pc' = "both"
    /\ UNCHANGED <<iv_self, iv_other, iv_result>>
    /\ UNCHANGED iv_frame

IVNext ==
    \/ Intersects
    \/ IntersectsSwapped

(***************************************************************************)
(* Properties of Interval::intersects.                                     *)
(***************************************************************************)
\* the positions of the closed range an interval stands for
PositionsOf(interval) ==
    {q \in Positions :
        /\ interval.start.bound = "Included" => Unwrap(interval.start.position) <= q
        /\ interval.end.bound = "Included" => q <= Unwrap(interval.end.position)}

\* C20: intersects is true exactly when the two closed ranges share at
\* least one position, an unbounded start or end standing for Position::MIN
\* or Position::MAX, and a.intersects(b) = b.intersects(a)
C20_IntersectsIsSharedPosition ==
    /\ iv_pc \in {"called", "both"} =>
          (Unwrap(iv_result)
              <=> PositionsOf(iv_self) \cap PositionsOf(iv_other) /= {})
    /\ iv_pc = "both" => Unwrap(iv_swapped) = Unwrap(iv_result)

(***************************************************************************)
(* Raw SAM quality scores (noodles-sam/src/record/quality_scores.rs): the  *)
(* bytes of the QUAL column and the iterator that turns each into a score. *)
(***************************************************************************)
MaxScores == 3

\* const OFFSET: u8 = b'!'
OFFSET == 33

\* QualityScores::new(buf): any byte slice, unchecked
QualityScores_new(buf) == buf

\* QualityScores::len
QualityScores_len(self) == Len(self)

\* a - b on u8: below zero it panics where the build checks overflow
\* (debug) and wraps modulo 2^8 where it does not (release)
sub_u8(a, b, overflow_checks) ==
    IF a < b /\ overflow_checks THEN Panic
    ELSE Ok((a + 256 - b) % 256)

\* the closure |&b| b - OFFSET of iter
score(b, overflow_checks) == sub_u8(b, OFFSET, overflow_checks)

\* the bytes a raw record can hold: below, at and above the offset
ScoreBytes == {0, 32, 33, 34, 126, 255}

QSIdle ==
    /\ qs_buf = <<>>
    /\ qs_overflow_checks = FALSE
    /\ qs_pc = "idle"
    /\ qs_iter = None
    /\ qs_yielded = <<>>
    /\ qs_len = None

QSInit ==
    /\ qs_buf \in {QualityScores_new(buf) : buf \in SeqsUpTo(ScoreBytes, MaxScores)}
    /\ qs_overflow_checks \in BOOLEAN
    /\ qs_pc = "ready"
    /\ qs_iter = None
    /\ qs_yielded = <<>>
    /\ qs_len = None

\* quality_scores.len()
QSLen ==
    /\ qs_pc \in {"ready", "iterating", "done", "panicked"}
    /\ qs_len = None
    /\ qs_len' = Some(QualityScores_len(qs_buf))
    /\ UNCHANGED <<qs_buf, qs_overflow_checks, qs_pc, qs_iter, qs_yielded>>
    /\ UNCHANGED qs_frame

\* quality_scores.iter(): self.as_ref().iter().map(..), nothing computed yet
QSIter ==
    /\ qs_pc = "ready"
    /\ qs_iter' = Some(qs_buf)
    /\ qs_pc' = "iterating"
    /\ UNCHANGED <<qs_buf, qs_overflow_checks, qs_yielded, qs_len>>
    /\ UNCHANGED qs_frame

\* Iterator::next on the mapped slice iterator
QSIterNextYields(rest, r) ==
    /\ qs_iter' = Some(Tail(rest))
    /\ qs_yielded' = IF r.status = "Ok" THEN Append(qs_yielded, r.value)
                     ELSE qs_yielded
    /\ qs_pc' = IF r.status = "Ok" THEN "iterating" ELSE "panicked"

QSIterNext ==
    /\ qs_pc = "iterating"
    /\ IF Unwrap(qs_iter) = <<>>
       THEN qs_pc' = "done" /\ UNCHANGED <<qs_iter, qs_yielded>>
       ELSE QSIterNextYields(Unwrap(qs_iter),
                             score(Head(Unwrap(qs_iter)), qs_overflow_checks))
    /\ UNCHANGED <<qs_buf, qs_overflow_checks, qs_len>>
    /\ UNCHANGED qs_frame

QSNext ==
    \/ QSLen
    \/ QSIter
    \/ QSIterNext

(***************************************************************************)
(* Properties of the raw quality scores.                                   *)
(***************************************************************************)
\* C30: for every byte sequence a raw QualityScores holds, iter yields one
\* score per byte, equal to byte - 33 computed without 8-bit underflow, so
\* every score lies in 0..=222, and len() scores are produced
C30_ScoresAreByteMinusOffset ==
    /\ qs_pc /= "panicked"
    /\ \A k \in 1..Len(qs_yielded) :
          /\ qs_yielded[k] = qs_buf[k] - OFFSET
          /\ qs_yielded[k] \in 0..222
    /\ qs_pc = "done" => Len(qs_yielded) = QualityScores_len(qs_buf)

(***************************************************************************)
(* Specifications: one per component, and their union.                     *)
(***************************************************************************)
InitStringMaps ==
    SMInit /\ RVIdle /\ RIIdle /\ FDIdle /\ CVIdle
    /\ PIdle /\ IVIdle /\ FSIdle /\ QSIdle
SpecStringMaps == InitStringMaps /\ [][SMNext]_vars

InitValue ==
    SMIdle /\ RVInit /\ RIIdle /\ FDIdle /\ CVIdle
    /\ PIdle /\ IVIdle /\ FSIdle /\ QSIdle
SpecValue == InitValue /\ [][ReadValue]_vars

InitInfo ==
    SMIdle /\ RVIdle /\ RIInit /\ FDIdle /\ CVIdle
    /\ PIdle /\ IVIdle /\ FSIdle /\ QSIdle
SpecInfo == InitInfo /\ [][ReadInfo]_vars

InitFields ==
    SMIdle /\ RVIdle /\ RIIdle /\ FDInit /\ CVIdle
    /\ PIdle /\ IVIdle /\ FSIdle /\ QSIdle
SpecFields == InitFields /\ [][FDNext]_vars

InitConvert ==
    SMIdle /\ RVIdle /\ RIIdle /\ FDIdle /\ CVInit
    /\ PIdle /\ IVIdle /\ FSIdle /\ QSIdle
SpecConvert == InitConvert /\ [][TryIntoVcfRecord]_vars

InitParser ==
    SMIdle /\ RVIdle /\ RIIdle /\ FDIdle /\ CVIdle
    /\ PInit /\ IVIdle /\ FSIdle /\ QSIdle
SpecParser == InitParser /\ [][PNext]_vars

InitInterval ==
    SMIdle /\ RVIdle /\ RIIdle /\ FDIdle /\ CVIdle
    /\ PIdle /\ IVInit /\ FSIdle /\ QSIdle
SpecInterval == InitInterval /\ [][IVNext]_vars

InitFromStr ==
    SMIdle /\ RVIdle /\ RIIdle /\ FDIdle /\ CVIdle
    /\ PIdle /\ IVIdle /\ FSInit /\ QSIdle
SpecFromStr == InitFromStr /\ [][FSNext]_vars

InitQualityScores ==
    SMIdle /\ RVIdle /\ RIIdle /\ FDIdle /\ CVIdle
    /\ PIdle /\ IVIdle /\ FSIdle /\ QSInit
SpecQualityScores == InitQualityScores /\ [][QSNext]_vars

Init ==
    \/ InitStringMaps
    \/ InitValue
    \/ InitInfo
    \/ InitFields
    \/ InitConvert
    \/ InitParser
    \/ InitInterval
    \/ InitFromStr
    \/ InitQualityScores
Next ==
    \/ SMNext
    \/ ReadValue
    \/ ReadInfo
    \/ FDNext
    \/ TryIntoVcfRecord
    \/ PNext
    \/ IVNext
    \/ FSNext
    \/ QSNext
Spec == Init /\ [][Next]_vars

==========================================================================
